---- MODULE Spec2Model ----
(***************************************************************************)
(* Crypt Vault (src/Crypt-Vault.cpp): AES-256-CBC with PKCS#7 padding, a   *)
(* random IV per encryption and a SHA-256 password-derived key.            *)
(* Bytes are the integers 0..255; a byte vector is a sequence of bytes.    *)
(***************************************************************************)
EXTENDS Integers, Sequences, FiniteSets, TLC

VARIABLES
  tab,     \* setKey, encrypt and decrypt tabulated over the model's inputs
  key,     \* AESCipher::key: the 32 key bytes, <<>> before the first setKey
  ctx,     \* AESCipher::ctx: the Context [roundKey, Nr]
  call,    \* the function called last
  arg,     \* its argument
  ret,     \* the byte vector it returned
  ok,      \* TRUE iff it returned from its last line, not from an early "return {}"
  blocks,  \* how many times it invoked encryptBlock or decryptBlock
  iv,      \* the 16 bytes generateRandomBytes gave it, <<>> when it gave none
  sent,    \* the latest successful encryption: [key, iv, plain, cipher]
  twin,    \* the successful encryption before it, kept when it had the same key
           \* and plaintext as the latest
  wire,    \* the ciphertext as it reaches decrypt (a file, a pasted text)
  loc,     \* the locals of a function that is followed statement by statement
  run,     \* the locals of CryptVaultApp::run and of the function it is in
  cin,     \* standard input: the unread characters and the stream's state
  fs,      \* the files: name -> content
  out      \* what the program reported for the menu action

vars == << tab, key, ctx, call, arg, ret, ok, blocks, iv, sent, twin, wire,
           loc, run, cin, fs, out >>

\* the variables of the specifications that follow a function statement by
\* statement, in the specifications that do not
NotStepped ==
  /\ loc = << >>
  /\ run = << >>
  /\ cin = << >>
  /\ fs = << >>
  /\ out = << >>

\* TLC evaluates the arguments of an operator and the definitions of a LET
\* whenever they are used.  Only({ e(v) : v \in { d } }) is e with v standing
\* for the value of d, computed once: this is how the model writes "v = d;"
\* followed by code that uses v.  A loop of the source is a recursive operator
\* that carries the loop's variables; a long loop "for (i = from; i < to; i++)"
\* runs its iterations in the same order, as the first half of the range
\* followed by the second half.
Only(S) == CHOOSE v \in S : TRUE

(***************************************************************************)
(* Bitwise operators of C on unsigned values.                              *)
(***************************************************************************)
\* a ^ b on two 4-bit values, bit by bit
XorNib(a, b) ==
  ((a + b) % 2)
  + 2 * (((a \div 2) + (b \div 2)) % 2)
  + 4 * (((a \div 4) + (b \div 4)) % 2)
  + 8 * (((a \div 8) + (b \div 8)) % 2)

\* a ^ b on unsigned char
Xor8(a, b) == 16 * XorNib(a \div 16, b \div 16) + XorNib(a % 16, b % 16)

(***************************************************************************)
(* namespace AES256Impl                                                    *)
(***************************************************************************)
sbox ==
  << 99, 124, 119, 123, 242, 107, 111, 197, 48, 1, 103, 43, 254, 215, 171, 118,
     202, 130, 201, 125, 250, 89, 71, 240, 173, 212, 162, 175, 156, 164, 114, 192,
     183, 253, 147, 38, 54, 63, 247, 204, 52, 165, 229, 241, 113, 216, 49, 21,
     4, 199, 35, 195, 24, 150, 5, 154, 7, 18, 128, 226, 235, 39, 178, 117,
     9, 131, 44, 26, 27, 110, 90, 160, 82, 59, 214, 179, 41, 227, 47, 132,
     83, 209, 0, 237, 32, 252, 177, 91, 106, 203, 190, 57, 74, 76, 88, 207,
     208, 239, 170, 251, 67, 77, 51, 133, 69, 249, 2, 127, 80, 60, 159, 168,
     81, 163, 64, 143, 146, 157, 56, 245, 188, 182, 218, 33, 16, 255, 243, 210,
     205, 12, 19, 236, 95, 151, 68, 23, 196, 167, 126, 61, 100, 93, 25, 115,
     96, 129, 79, 220, 34, 42, 144, 136, 70, 238, 184, 20, 222, 94, 11, 219,
     224, 50, 58, 10, 73, 6, 36, 92, 194, 211, 172, 98, 145, 149, 228, 121,
     231, 200, 55, 109, 141, 213, 78, 169, 108, 86, 244, 234, 101, 122, 174, 8,
     186, 120, 37, 46, 28, 166, 180, 198, 232, 221, 116, 31, 75, 189, 139, 138,
     112, 62, 181, 102, 72, 3, 246, 14, 97, 53, 87, 185, 134, 193, 29, 158,
     225, 248, 152, 17, 105, 217, 142, 148, 155, 30, 135, 233, 206, 85, 40, 223,
     140, 161, 137, 13, 191, 230, 66, 104, 65, 153, 45, 15, 176, 84, 187, 22 >>

rsbox ==
  << 82, 9, 106, 213, 48, 54, 165, 56, 191, 64, 163, 158, 129, 243, 215, 251,
     124, 227, 57, 130, 155, 47, 255, 135, 52, 142, 67, 68, 196, 222, 233, 203,
     84, 123, 148, 50, 166, 194, 35, 61, 238, 76, 149, 11, 66, 250, 195, 78,
     8, 46, 161, 102, 40, 217, 36, 178, 118, 91, 162, 73, 109, 139, 209, 37,
     114, 248, 246, 100, 134, 104, 152, 22, 212, 164, 92, 204, 93, 101, 182, 146,
     108, 112, 72, 80, 253, 237, 185, 218, 94, 21, 70, 87, 167, 141, 157, 132,
     144, 216, 171, 0, 140, 188, 211, 10, 247, 228, 88, 5, 184, 179, 69, 6,
     208, 44, 30, 143, 202, 63, 15, 2, 193, 175, 189, 3, 1, 19, 138, 107,
     58, 145, 17, 65, 79, 103, 220, 234, 151, 242, 207, 206, 240, 180, 230, 115,
     150, 172, 116, 34, 231, 173, 53, 133, 226, 249, 55, 232, 28, 117, 223, 110,
     71, 241, 26, 113, 29, 41, 197, 137, 111, 183, 98, 14, 170, 24, 190, 27,
     252, 86, 62, 75, 198, 210, 121, 32, 154, 219, 192, 254, 120, 205, 90, 244,
     31, 221, 168, 51, 136, 7, 199, 49, 177, 18, 16, 89, 39, 128, 236, 95,
     96, 81, 127, 169, 25, 181, 74, 13, 45, 229, 122, 159, 147, 201, 156, 239,
     160, 224, 59, 77, 174, 42, 245, 176, 200, 235, 187, 60, 131, 83, 153, 97,
     23, 43, 4, 126, 186, 119, 214, 38, 225, 105, 20, 99, 85, 33, 12, 125 >>

rcon ==
  << 0, 1, 2, 4, 8, 16, 32, 64, 128, 27, 54 >>

\* xtime: (x<<1) ^ ((x>>7) & 1 ? 0x1b : 0), returned as unsigned char
xtime(x) == Xor8((x * 2) % 256, IF (x \div 128) % 2 = 1 THEN 27 ELSE 0)

\* gmul: the 8 iterations of "if (b & 1) p ^= a; a = xtime(a); b >>= 1"
RECURSIVE gmulLoop(_, _, _, _)
gmulLoop(a, b, p, i) ==
  IF i = 8 THEN p
  ELSE Only({ gmulLoop(a1, b1, p1, i + 1) :
                a1 \in { xtime(a) },
                b1 \in { b \div 2 },
                p1 \in { IF b % 2 = 1 THEN Xor8(p, a) ELSE p } })

gmul(a, b) == gmulLoop(a, b, 0, 0)

\* gmul(a, b) for every byte a, as a 256-entry sequence indexed by a + 1
GmulTable(b) == SubSeq([i \in 1..256 |-> gmul(i - 1, b)], 1, 256)

\* the products used by mixColumns (2, 3) and invMixColumns (9, 11, 13, 14)
Gmul2 == GmulTable(2)
Gmul3 == GmulTable(3)
Gmul9 == GmulTable(9)
Gmul11 == GmulTable(11)
Gmul13 == GmulTable(13)
Gmul14 == GmulTable(14)

\* In the operators of Context, self is the Context (roundKey, Nr) they act on.
\* unsigned char state[4][4]: a 4-tuple of rows, state[r][c] is st[r + 1][c + 1]
Mat(f(_, _)) ==
  << << f(0, 0), f(0, 1), f(0, 2), f(0, 3) >>,
     << f(1, 0), f(1, 1), f(1, 2), f(1, 3) >>,
     << f(2, 0), f(2, 1), f(2, 2), f(2, 3) >>,
     << f(3, 0), f(3, 1), f(3, 2), f(3, 3) >> >>

\* one word of the key schedule: roundKey[i*4 .. i*4+3] from the words before it
keyWord(rk, i) ==
  LET Nk == 8
      t0 == rk[(i - 1) * 4 + 1]
      t1 == rk[(i - 1) * 4 + 2]
      t2 == rk[(i - 1) * 4 + 3]
      t3 == rk[(i - 1) * 4 + 4]
      temp == IF i % Nk = 0
                THEN << Xor8(sbox[t1 + 1], rcon[(i \div Nk) + 1]),
                        sbox[t2 + 1], sbox[t3 + 1], sbox[t0 + 1] >>
                ELSE IF i % Nk = 4
                  THEN << sbox[t0 + 1], sbox[t1 + 1], sbox[t2 + 1], sbox[t3 + 1] >>
                  ELSE << t0, t1, t2, t3 >>
  IN << Xor8(rk[(i - Nk) * 4 + 1], temp[1]), Xor8(rk[(i - Nk) * 4 + 2], temp[2]),
        Xor8(rk[(i - Nk) * 4 + 3], temp[3]), Xor8(rk[(i - Nk) * 4 + 4], temp[4]) >>

\* the loop "for (i = from; i < to; i++)" over the words of the schedule; rk
\* holds roundKey[0 .. from*4 - 1]
RECURSIVE keyExpansionLoop(_, _, _)
keyExpansionLoop(rk, from, to) ==
  IF to <= from THEN rk
  ELSE IF to = from + 1 THEN rk \o keyWord(rk, from)
  ELSE Only({ keyExpansionLoop(first, (from + to) \div 2, to) :
                first \in { keyExpansionLoop(rk, from, (from + to) \div 2) } })

\* Context::keyExpansion: Nr = 14, roundKey = the 32 key bytes then words 8..59
keyExpansion(k) ==
  LET nr == 14
  IN [Nr |-> nr, roundKey |-> Only({ keyExpansionLoop(rk, 8, 4 * (nr + 1)) : rk \in { k } })]

addRoundKey(self, state, round) ==
  Mat(LAMBDA r, c : Xor8(state[r + 1][c + 1], self.roundKey[round * 16 + c * 4 + r + 1]))

subBytes(state) == Mat(LAMBDA r, c : sbox[state[r + 1][c + 1] + 1])

invSubBytes(state) == Mat(LAMBDA r, c : rsbox[state[r + 1][c + 1] + 1])

\* faulty shiftRows: the rows are left as they are
shiftRowsNone(state) == state

shiftRows(state) ==
  << state[1],
     << state[2][2], state[2][3], state[2][4], state[2][1] >>,
     << state[3][3], state[3][4], state[3][1], state[3][2] >>,
     << state[4][4], state[4][1], state[4][2], state[4][3] >> >>

\* faulty invShiftRows: the rows are rotated to the left once more
invShiftRowsLeft(state) == shiftRows(state)

invShiftRows(state) ==
  << state[1],
     << state[2][4], state[2][1], state[2][2], state[2][3] >>,
     << state[3][3], state[3][4], state[3][1], state[3][2] >>,
     << state[4][2], state[4][3], state[4][4], state[4][1] >> >>

Xor4(a, b, c, d) == Xor8(Xor8(a, b), Xor8(c, d))

mixColumns(state) ==
  Mat(LAMBDA r, i :
        LET a0 == state[1][i + 1]
            a1 == state[2][i + 1]
            a2 == state[3][i + 1]
            a3 == state[4][i + 1]
        IN CASE r = 0 -> Xor4(Gmul2[a0 + 1], Gmul3[a1 + 1], a2, a3)
             [] r = 1 -> Xor4(a0, Gmul2[a1 + 1], Gmul3[a2 + 1], a3)
             [] r = 2 -> Xor4(a0, a1, Gmul2[a2 + 1], Gmul3[a3 + 1])
             [] r = 3 -> Xor4(Gmul3[a0 + 1], a1, a2, Gmul2[a3 + 1]))

\* faulty invMixColumns: the matrix of mixColumns (2, 3, 1, 1)
invMixColumnsForward(state) == mixColumns(state)

invMixColumns(state) ==
  Mat(LAMBDA r, i :
        LET a0 == state[1][i + 1]
            a1 == state[2][i + 1]
            a2 == state[3][i + 1]
            a3 == state[4][i + 1]
        IN CASE r = 0 -> Xor4(Gmul14[a0 + 1], Gmul11[a1 + 1], Gmul13[a2 + 1], Gmul9[a3 + 1])
             [] r = 1 -> Xor4(Gmul9[a0 + 1], Gmul14[a1 + 1], Gmul11[a2 + 1], Gmul13[a3 + 1])
             [] r = 2 -> Xor4(Gmul13[a0 + 1], Gmul9[a1 + 1], Gmul14[a2 + 1], Gmul11[a3 + 1])
             [] r = 3 -> Xor4(Gmul11[a0 + 1], Gmul13[a1 + 1], Gmul9[a2 + 1], Gmul14[a3 + 1]))

\* state[j][i] = block[i*4+j]
loadState(block) == Mat(LAMBDA j, i : block[i * 4 + j + 1])

\* block[i*4+j] = state[j][i]
storeState(state) ==
  << state[1][1], state[2][1], state[3][1], state[4][1],
     state[1][2], state[2][2], state[3][2], state[4][2],
     state[1][3], state[2][3], state[3][3], state[4][3],
     state[1][4], state[2][4], state[3][4], state[4][4] >>

RECURSIVE encryptRounds(_, _, _)
encryptRounds(self, state, round) ==
  IF round >= self.Nr THEN state
  ELSE Only({ encryptRounds(self, s4, round + 1) :
                s4 \in { addRoundKey(self, s3, round) :
                s3 \in { mixColumns(s2) :
                s2 \in { shiftRows(s1) :
                s1 \in { subBytes(state) } } } } })

encryptBlock(self, block) ==
  Only({ storeState(s6) :
           s6 \in { addRoundKey(self, s5, self.Nr) :
           s5 \in { shiftRows(s4) :
           s4 \in { subBytes(s3) :
           s3 \in { encryptRounds(self, s2, 1) :
           s2 \in { addRoundKey(self, s1, 0) :
           s1 \in { loadState(block) } } } } } } })

RECURSIVE decryptRounds(_, _, _)
decryptRounds(self, state, round) ==
  IF round <= 0 THEN state
  ELSE Only({ decryptRounds(self, s4, round - 1) :
                s4 \in { invMixColumns(s3) :
                s3 \in { addRoundKey(self, s2, round) :
                s2 \in { invSubBytes(s1) :
                s1 \in { invShiftRows(state) } } } } })

decryptBlock(self, block) ==
  Only({ storeState(s6) :
           s6 \in { addRoundKey(self, s5, 0) :
           s5 \in { invSubBytes(s4) :
           s4 \in { invShiftRows(s3) :
           s3 \in { decryptRounds(self, s2, self.Nr - 1) :
           s2 \in { addRoundKey(self, s1, self.Nr) :
           s1 \in { loadState(block) } } } } } } })

(***************************************************************************)
(* namespace SHA256Impl.  A uint32 is the pair <<hi, lo>> of its upper and *)
(* lower 16 bits (value hi * 65536 + lo): TLC's integers are 32-bit signed *)
(* and cannot hold 2^32 - 1.  Every operator below is the C operator on    *)
(* uint32, with + taken modulo 2^32.                                       *)
(***************************************************************************)
\* a & b on two 4-bit values, bit by bit
AndNib(a, b) ==
  ((a % 2) * (b % 2))
  + 2 * (((a \div 2) % 2) * ((b \div 2) % 2))
  + 4 * (((a \div 4) % 2) * ((b \div 4) % 2))
  + 8 * (((a \div 8) % 2) * ((b \div 8) % 2))

\* a & b on unsigned char
And8(a, b) == 16 * AndNib(a \div 16, b \div 16) + AndNib(a % 16, b % 16)

Xor16(a, b) == 256 * Xor8(a \div 256, b \div 256) + Xor8(a % 256, b % 256)
And16(a, b) == 256 * And8(a \div 256, b \div 256) + And8(a % 256, b % 256)

Xor32(x, y) ==
  Only({ << Xor16(a[1], b[1]), Xor16(a[2], b[2]) >> : a \in { x }, b \in { y } })

And32(x, y) ==
  Only({ << And16(a[1], b[1]), And16(a[2], b[2]) >> : a \in { x }, b \in { y } })

Not32(x) == Only({ << 65535 - a[1], 65535 - a[2] >> : a \in { x } })

\* faulty +: the carry from the lower into the upper 16 bits is lost
Add32NoCarry(x, y) ==
  Only({ << (a[1] + b[1]) % 65536, (a[2] + b[2]) % 65536 >> : a \in { x }, b \in { y } })

\* x + y on uint32
Add32(x, y) ==
  Only({ << (a[1] + b[1] + ((a[2] + b[2]) \div 65536)) % 65536, (a[2] + b[2]) % 65536 >> :
           a \in { x }, b \in { y } })

Pow2(n) ==
  << 1, 2, 4, 8, 16, 32, 64, 128, 256, 512, 1024, 2048, 4096, 8192, 16384, 32768, 65536 >>[n + 1]

\* x >> n on uint32, 0 <= n < 32
Shr32(x, n) ==
  IF n >= 16 THEN << 0, x[1] \div Pow2(n - 16) >>
  ELSE << x[1] \div Pow2(n), (x[2] \div Pow2(n)) + (x[1] % Pow2(n)) * Pow2(16 - n) >>

\* x << n on uint32, 0 <= n < 32 (the bits shifted out are dropped)
Shl32(x, n) ==
  IF n >= 16 THEN << (x[2] % Pow2(32 - n)) * Pow2(n - 16), 0 >>
  ELSE << (x[1] % Pow2(16 - n)) * Pow2(n) + (x[2] \div Pow2(16 - n)),
          (x[2] % Pow2(16 - n)) * Pow2(n) >>

\* (x >> n) | (x << (32 - n)): the two parts have no bit in common
rotr(x, n) ==
  Only({ << r[1] + l[1], r[2] + l[2] >> : r \in { Shr32(x, n) }, l \in { Shl32(x, 32 - n) } })

ch(x, y, z) == Xor32(And32(x, y), And32(Not32(x), z))
maj(x, y, z) == Xor32(Xor32(And32(x, y), And32(x, z)), And32(y, z))
sig0(x) == Xor32(Xor32(rotr(x, 2), rotr(x, 13)), rotr(x, 22))
sig1(x) == Xor32(Xor32(rotr(x, 6), rotr(x, 11)), rotr(x, 25))
gam0(x) == Xor32(Xor32(rotr(x, 7), rotr(x, 18)), Shr32(x, 3))
gam1(x) == Xor32(Xor32(rotr(x, 17), rotr(x, 19)), Shr32(x, 10))

K ==
  << <<17034, 12184>>, <<28983, 17553>>, <<46528, 64463>>, <<59829, 56229>>,
     <<14678, 49755>>, <<23025, 4593>>, <<37439, 33444>>, <<43804, 24277>>,
     <<55303, 43672>>, <<4739, 23297>>, <<9265, 34238>>, <<21772, 32195>>,
     <<29374, 23924>>, <<32990, 45566>>, <<39900, 1703>>, <<49563, 61812>>,
     <<58523, 27073>>, <<61374, 18310>>, <<4033, 40390>>, <<9228, 41420>>,
     <<11753, 11375>>, <<19060, 33962>>, <<23728, 43484>>, <<30457, 35034>>,
     <<38974, 20818>>, <<43057, 50797>>, <<45059, 10184>>, <<48985, 32711>>,
     <<50912, 3059>>, <<54695, 37191>>, <<1738, 25425>>, <<5161, 10599>>,
     <<10167, 2693>>, <<11803, 8504>>, <<19756, 28156>>, <<21304, 3347>>,
     <<25866, 29524>>, <<30314, 2747>>, <<33218, 51502>>, <<37490, 11397>>,
     <<41663, 59553>>, <<43034, 26187>>, <<49739, 35696>>, <<51052, 20899>>,
     <<53650, 59417>>, <<54937, 1572>>, <<62478, 13701>>, <<4202, 41072>>,
     <<6564, 49430>>, <<7735, 27656>>, <<10056, 30540>>, <<13488, 48309>>,
     <<14620, 3251>>, <<20184, 43594>>, <<23452, 51791>>, <<26670, 28659>>,
     <<29839, 33518>>, <<30885, 25455>>, <<33992, 30740>>, <<36039, 520>>,
     <<37054, 65530>>, <<42064, 27883>>, <<48889, 41975>>, <<50801, 30962>> >>

H0 ==
  << <<27145, 58983>>, <<47975, 44677>>, <<15470, 62322>>, <<42319, 62778>>,
     <<20750, 21119>>, <<39685, 26764>>, <<8067, 55723>>, <<23520, 52505>> >>

\* while ((msg.size() % 64) != 56) msg.push_back(0x00): the loop runs
\* (56 - msg.size()) mod 64 times
zeroPad(msg) ==
  Only({ m \o [i \in 1..((120 - (Len(m) % 64)) % 64) |-> 0] : m \in { msg } })

\* (unsigned char)(bitlen >> (i * 8)); len * 8 < 2^31 for every message here,
\* so the bytes i >= 4 of the uint64 are 0
bitlenByte(len, i) ==
  IF i >= 4 THEN 0 ELSE ((len * 8) \div << 1, 256, 65536, 16777216 >>[i + 1]) % 256

\* the padded message: data, 0x80, the zeros, then bitlen = len * 8 as 8 bytes,
\* most significant first
shaPad(data) ==
  LET len == Len(data)
  IN zeroPad(Append(data, 128))
       \o << bitlenByte(len, 7), bitlenByte(len, 6), bitlenByte(len, 5), bitlenByte(len, 4),
             bitlenByte(len, 3), bitlenByte(len, 2), bitlenByte(len, 1), bitlenByte(len, 0) >>

\* w[i] for i < 16: the big-endian word at msg[off + i*4 .. off + i*4 + 3]
msgWord(msg, off, i) ==
  << msg[off + i * 4 + 1] * 256 + msg[off + i * 4 + 2],
     msg[off + i * 4 + 3] * 256 + msg[off + i * 4 + 4] >>

\* w[i] = gam1(w[i-2]) + w[i-7] + gam0(w[i-15]) + w[i-16]; w[j] is w[j + 1] here
scheduleWord(w, i) ==
  Add32(Add32(Add32(gam1(w[i - 2 + 1]), w[i - 7 + 1]), gam0(w[i - 15 + 1])), w[i - 16 + 1])

\* "for (i = from; i < to; i++) w[i] = ..."; w holds w[0 .. from-1]
RECURSIVE scheduleLoop(_, _, _)
scheduleLoop(w, from, to) ==
  IF to <= from THEN w
  ELSE IF to = from + 1 THEN Append(w, scheduleWord(w, from))
  ELSE Only({ scheduleLoop(first, (from + to) \div 2, to) :
                first \in { scheduleLoop(w, from, (from + to) \div 2) } })

schedule(msg, off) ==
  Only({ scheduleLoop(w, 16, 64) :
           w \in { << msgWord(msg, off, 0), msgWord(msg, off, 1), msgWord(msg, off, 2),
                      msgWord(msg, off, 3), msgWord(msg, off, 4), msgWord(msg, off, 5),
                      msgWord(msg, off, 6), msgWord(msg, off, 7), msgWord(msg, off, 8),
                      msgWord(msg, off, 9), msgWord(msg, off, 10), msgWord(msg, off, 11),
                      msgWord(msg, off, 12), msgWord(msg, off, 13), msgWord(msg, off, 14),
                      msgWord(msg, off, 15) >> } })

\* one round on v = <<a, b, c, d, e, f, g, hh>>
shaRound(v, w, i) ==
  Only({ << Add32(t1, t2), v[1], v[2], v[3], Add32(v[4], t1), v[5], v[6], v[7] >> :
           t1 \in { Add32(Add32(Add32(Add32(v[8], sig1(v[5])), ch(v[5], v[6], v[7])),
                               K[i + 1]), w[i + 1]) },
           t2 \in { Add32(sig0(v[1]), maj(v[1], v[2], v[3])) } })

\* "for (i = from; i < to; i++)" over the rounds
RECURSIVE compressLoop(_, _, _, _)
compressLoop(v, w, from, to) ==
  IF to <= from THEN v
  ELSE IF to = from + 1 THEN shaRound(v, w, from)
  ELSE Only({ compressLoop(first, w, (from + to) \div 2, to) :
                first \in { compressLoop(v, w, from, (from + to) \div 2) } })

\* one 64-byte block: h[k] += the k-th working variable
compress(h, msg, off) ==
  Only({ << Add32(h[1], v[1]), Add32(h[2], v[2]), Add32(h[3], v[3]), Add32(h[4], v[4]),
            Add32(h[5], v[5]), Add32(h[6], v[6]), Add32(h[7], v[7]), Add32(h[8], v[8]) >> :
           v \in { compressLoop(h, w, 0, 64) : w \in { schedule(msg, off) } } })

RECURSIVE blocksLoop(_, _, _)
blocksLoop(h, msg, off) ==
  IF off >= Len(msg) THEN h
  ELSE Only({ blocksLoop(next, msg, off + 64) : next \in { compress(h, msg, off) } })

\* result[i*4 .. i*4+3] = the bytes of h[i], most significant first
wordBytes(x) == << x[1] \div 256, x[1] % 256, x[2] \div 256, x[2] % 256 >>

\* SHA256Impl::hash
hash(data) ==
  Only({ wordBytes(h[1]) \o wordBytes(h[2]) \o wordBytes(h[3]) \o wordBytes(h[4])
           \o wordBytes(h[5]) \o wordBytes(h[6]) \o wordBytes(h[7]) \o wordBytes(h[8]) :
           h \in { blocksLoop(H0, msg, 0) : msg \in { shaPad(data) } } })

\* the characters "hex" prints, in order of value; a char is a string of length 1
HexLower ==
  << "0", "1", "2", "3", "4", "5", "6", "7", "8", "9", "a", "b", "c", "d", "e", "f" >>

\* "ss << hex << setfill('0') << setw(2) << (int)b": two characters for a byte
hexByte(b) == << HexLower[(b \div 16) + 1], HexLower[(b % 16) + 1] >>

\* SHA256Impl::toHex
toHex(h) ==
  SubSeq([i \in 1..(2 * Len(h)) |-> hexByte(h[(i + 1) \div 2])[2 - (i % 2)]], 1, 2 * Len(h))

(***************************************************************************)
(* Utility functions.                                                      *)
(***************************************************************************)
\* faulty pkcs7Pad: no padding block when the length is a multiple of 16
pkcs7PadNoFullBlock(data) ==
  LET padLen == (16 - (Len(data) % 16)) % 16
  IN IF padLen = 0 THEN data ELSE data \o [i \in 1..padLen |-> padLen]

\* faulty pkcs7Pad: zero bytes as padding
pkcs7PadZeros(data) ==
  LET padLen == 16 - (Len(data) % 16)
  IN data \o [i \in 1..padLen |-> 0]

\* pkcs7Pad: data followed by padLen bytes, each (unsigned char)padLen
pkcs7Pad(data) ==
  LET padLen == 16 - (Len(data) % 16)
  IN data \o [i \in 1..padLen |-> padLen]

\* faulty pkcs7Unpad: only the last byte is looked at
pkcs7UnpadLastOnly(data) ==
  IF Len(data) = 0 \/ Len(data) % 16 # 0 THEN [ok |-> FALSE, data |-> data]
  ELSE LET pad == data[Len(data)]
       IN IF pad < 1 \/ pad > 16 THEN [ok |-> FALSE, data |-> data]
          ELSE [ok |-> TRUE, data |-> SubSeq(data, 1, Len(data) - pad)]

\* pkcs7Unpad: the bool returned and the vector as the call leaves it
pkcs7Unpad(data) ==
  IF Len(data) = 0 \/ Len(data) % 16 # 0 THEN [ok |-> FALSE, data |-> data]
  ELSE LET pad == data[Len(data)]
       IN IF pad < 1 \/ pad > 16 THEN [ok |-> FALSE, data |-> data]
          ELSE IF \E i \in (Len(data) - pad + 1)..Len(data) : data[i] # pad
            THEN [ok |-> FALSE, data |-> data]
            ELSE [ok |-> TRUE, data |-> SubSeq(data, 1, Len(data) - pad)]

\* faulty bytesToHex: without setfill('0') and setw(2), a byte below 16 is one character
RECURSIVE bytesToHexNoFill(_)
bytesToHexNoFill(data) ==
  IF data = << >> THEN << >>
  ELSE (IF Head(data) < 16 THEN << HexLower[Head(data) + 1] >> ELSE hexByte(Head(data)))
         \o bytesToHexNoFill(Tail(data))

\* bytesToHex(data, len): two characters for each byte, in order
bytesToHex(data) ==
  SubSeq([i \in 1..(2 * Len(data)) |-> hexByte(data[(i + 1) \div 2])[2 - (i % 2)]],
         1, 2 * Len(data))

\* the hexadecimal digits strtol reads in capitals
HexUpper ==
  << "0", "1", "2", "3", "4", "5", "6", "7", "8", "9", "A", "B", "C", "D", "E", "F" >>

isxdigit(c) == \E i \in 1..16 : HexLower[i] = c \/ HexUpper[i] = c

digitValue(c) == (CHOOSE i \in 1..16 : HexLower[i] = c \/ HexUpper[i] = c) - 1

\* strtol(s, nullptr, 16) on the two characters c1 c2: white space is skipped
\* (the space is the white space of the model), then an optional sign, then the
\* digits up to the first character that is none ("0x" reads as 0: no digit
\* follows the prefix); 0 when there is no digit
strtol(c1, c2) ==
  IF isxdigit(c1)
    THEN IF isxdigit(c2) THEN 16 * digitValue(c1) + digitValue(c2) ELSE digitValue(c1)
  ELSE IF c1 = " " \/ c1 = "+" THEN (IF isxdigit(c2) THEN digitValue(c2) ELSE 0)
  ELSE IF c1 = "-" THEN (IF isxdigit(c2) THEN 0 - digitValue(c2) ELSE 0)
  ELSE 0

\* faulty hexToBytes: "for (i = 0; i < hex.size(); i += 2)", a last odd
\* character becomes a byte of its own
hexToBytesKeepsLast(hex) ==
  SubSeq([k \in 1..((Len(hex) + 1) \div 2) |->
            IF 2 * k <= Len(hex) THEN (strtol(hex[2 * k - 1], hex[2 * k]) + 256) % 256
            ELSE (strtol(hex[2 * k - 1], "?") + 256) % 256],
         1, (Len(hex) + 1) \div 2)

\* hexToBytes: "for (i = 0; i + 1 < hex.size(); i += 2)", the byte is
\* (unsigned char)strtol(hex.substr(i, 2)); a last odd character is left out
hexToBytes(hex) ==
  SubSeq([k \in 1..(Len(hex) \div 2) |-> (strtol(hex[2 * k - 1], hex[2 * k]) + 256) % 256],
         1, Len(hex) \div 2)

\* faulty chaining: the previous block is not mixed in
xorBlockNone(block, prev) == block

\* "block[j] = padded[i+j] ^ prev[j]" in encrypt, "block[j] ^= prev[j]" in decrypt
xorBlock(block, prev) == [j \in 1..16 |-> Xor8(block[j], prev[j])]

(***************************************************************************)
(* class AESCipher.  A call of generateRandomBytes(iv, 16) is the record   *)
(* rnd: rnd.good is the bool it returns and rnd.buf the 16 bytes it leaves *)
(* in iv (on failure, whatever the array holds).  encrypt and decrypt give *)
(* the vector returned (ret), whether the return is the last line of the   *)
(* function (ok) and the number of blocks given to the block cipher.       *)
(***************************************************************************)
\* faulty setKey: the digest is hashed once more
setKeyTwice(password) ==
  Only({ [key |-> h, ctx |-> keyExpansion(h)] : h \in { hash(hash(password)) } })

\* AESCipher::setKey: the members key and ctx after the call
setKey(password) ==
  Only({ [key |-> h, ctx |-> keyExpansion(h)] : h \in { hash(password) } })

\* faulty loop of encrypt: prev stays the IV, "memcpy(prev, block, 16)" is missing
RECURSIVE encryptLoopKeepsPrev(_, _, _, _, _)
encryptLoopKeepsPrev(self, padded, i, prev, acc) ==
  IF i >= Len(padded) THEN acc
  ELSE Only({ encryptLoopKeepsPrev(self, padded, i + 16, prev,
                                   [ret |-> acc.ret \o block, blocks |-> acc.blocks + 1]) :
                block \in { encryptBlock(self, mixed) :
                mixed \in { xorBlock(SubSeq(padded, i + 1, i + 16), prev) } } })

\* the loop of encrypt from offset i on; acc is [ret |-> result, blocks |-> count]
RECURSIVE encryptLoop(_, _, _, _, _)
encryptLoop(self, padded, i, prev, acc) ==
  IF i >= Len(padded) THEN acc
  ELSE Only({ encryptLoop(self, padded, i + 16, block,
                          [ret |-> acc.ret \o block, blocks |-> acc.blocks + 1]) :
                block \in { encryptBlock(self, mixed) :
                mixed \in { xorBlock(SubSeq(padded, i + 1, i + 16), prev) } } })

\* faulty encrypt: the IV is not put in front of the blocks
encryptNoIV(self, plaintext, rnd) ==
  Only({ IF ~ rnd.good THEN [ret |-> << >>, ok |-> FALSE, blocks |-> 0]
           ELSE Only({ [ret |-> acc.ret, ok |-> TRUE, blocks |-> acc.blocks] :
                         acc \in { encryptLoop(self, padded, 0, rnd.buf,
                                                [ret |-> << >>, blocks |-> 0]) } }) :
           padded \in { pkcs7Pad(plaintext) } })

\* faulty encrypt: the result of generateRandomBytes is not tested
encryptIgnoreFailure(self, plaintext, rnd) ==
  Only({ Only({ [ret |-> acc.ret, ok |-> TRUE, blocks |-> acc.blocks] :
              acc \in { encryptLoop(self, padded, 0, rnd.buf,
                                     [ret |-> rnd.buf, blocks |-> 0]) } }) :
           padded \in { pkcs7Pad(plaintext) } })

\* faulty encrypt: an all-zero IV whatever the random source gave
encryptFixedIV(self, plaintext, rnd) ==
  Only({ IF ~ rnd.good THEN [ret |-> << >>, ok |-> FALSE, blocks |-> 0]
           ELSE Only({ [ret |-> acc.ret, ok |-> TRUE, blocks |-> acc.blocks] :
                         acc \in { encryptLoop(self, padded, 0, zero,
                                                [ret |-> zero, blocks |-> 0]) } }) :
           zero \in { << 0, 0, 0, 0, 0, 0, 0, 0, 0, 0, 0, 0, 0, 0, 0, 0 >> },
           padded \in { pkcs7Pad(plaintext) } })

\* AESCipher::encrypt with the Context self
encrypt(self, plaintext, rnd) ==
  Only({ IF ~ rnd.good THEN [ret |-> << >>, ok |-> FALSE, blocks |-> 0]
           ELSE Only({ [ret |-> acc.ret, ok |-> TRUE, blocks |-> acc.blocks] :
                         acc \in { encryptLoop(self, padded, 0, rnd.buf,
                                                [ret |-> rnd.buf, blocks |-> 0]) } }) :
           padded \in { pkcs7Pad(plaintext) } })

\* faulty loop of decrypt: prev becomes the block recovered, not the block received
RECURSIVE decryptLoopPrevPlain(_, _, _, _, _)
decryptLoopPrevPlain(self, ciphertext, i, prev, acc) ==
  IF i >= Len(ciphertext) THEN acc
  ELSE Only({ decryptLoopPrevPlain(self, ciphertext, i + 16, block,
                                   [ret |-> acc.ret \o block, blocks |-> acc.blocks + 1]) :
                block \in { xorBlock(dec, prev) :
                dec \in { decryptBlock(self, SubSeq(ciphertext, i + 1, i + 16)) } } })

\* the loop of decrypt from offset i on
RECURSIVE decryptLoop(_, _, _, _, _)
decryptLoop(self, ciphertext, i, prev, acc) ==
  IF i >= Len(ciphertext) THEN acc
  ELSE Only({ decryptLoop(self, ciphertext, i + 16, enc,
                          [ret |-> acc.ret \o block, blocks |-> acc.blocks + 1]) :
                enc \in { SubSeq(ciphertext, i + 1, i + 16) },
                block \in { xorBlock(dec, prev) :
                dec \in { decryptBlock(self, SubSeq(ciphertext, i + 1, i + 16)) } } })

\* faulty decrypt: prev starts as zeros, not as the IV
decryptZeroPrev(self, ciphertext) ==
  IF Len(ciphertext) < 32 \/ (Len(ciphertext) - 16) % 16 # 0
    THEN [ret |-> << >>, ok |-> FALSE, blocks |-> 0]
    ELSE Only({ Only({ IF ~ unpadded.ok
                         THEN [ret |-> << >>, ok |-> FALSE, blocks |-> acc.blocks]
                         ELSE [ret |-> unpadded.data, ok |-> TRUE, blocks |-> acc.blocks] :
                         unpadded \in { pkcs7Unpad(acc.ret) } }) :
                  acc \in { decryptLoop(self, ciphertext, 16, << 0, 0, 0, 0, 0, 0, 0, 0, 0, 0, 0, 0, 0, 0, 0, 0 >>,
                                         [ret |-> << >>, blocks |-> 0]) } })

\* faulty decrypt: the length test asks for 48 bytes
decryptMin48(self, ciphertext) ==
  IF Len(ciphertext) < 48 \/ (Len(ciphertext) - 16) % 16 # 0
    THEN [ret |-> << >>, ok |-> FALSE, blocks |-> 0]
    ELSE Only({ Only({ IF ~ unpadded.ok
                         THEN [ret |-> << >>, ok |-> FALSE, blocks |-> acc.blocks]
                         ELSE [ret |-> unpadded.data, ok |-> TRUE, blocks |-> acc.blocks] :
                         unpadded \in { pkcs7Unpad(acc.ret) } }) :
                  acc \in { decryptLoop(self, ciphertext, 16, SubSeq(ciphertext, 1, 16),
                                         [ret |-> << >>, blocks |-> 0]) } })

\* AESCipher::decrypt with the Context self
decrypt(self, ciphertext) ==
  IF Len(ciphertext) < 32 \/ (Len(ciphertext) - 16) % 16 # 0
    THEN [ret |-> << >>, ok |-> FALSE, blocks |-> 0]
    ELSE Only({ Only({ IF ~ unpadded.ok
                         THEN [ret |-> << >>, ok |-> FALSE, blocks |-> acc.blocks]
                         ELSE [ret |-> unpadded.data, ok |-> TRUE, blocks |-> acc.blocks] :
                         unpadded \in { pkcs7Unpad(acc.ret) } }) :
                  acc \in { decryptLoop(self, ciphertext, 16, SubSeq(ciphertext, 1, 16),
                                         [ret |-> << >>, blocks |-> 0]) } })

(***************************************************************************)
(* The inputs of the model.  Tamper and Resize are the environment: the    *)
(* ciphertext is a file or a pasted hex text between encrypt and decrypt.  *)
(***************************************************************************)
Passwords == { << 112, 119 >>, << 115, 101, 99, 114, 101, 116 >> }

\* the empty plaintext, 15 bytes of value 16, and a whole block ("0123456789abcdef")
Plains ==
  { << >>,
    << 16, 16, 16, 16, 16, 16, 16, 16, 16, 16, 16, 16, 16, 16, 16 >>,
    << 48, 49, 50, 51, 52, 53, 54, 55, 56, 57, 97, 98, 99, 100, 101, 102 >> }

IVs ==
  { << 0, 1, 2, 3, 4, 5, 6, 7, 8, 9, 10, 11, 12, 13, 14, 15 >>,
    << 165, 90, 60, 195, 15, 240, 255, 0, 129, 126, 24, 231, 102, 153, 219, 36 >> }

\* generateRandomBytes fills the array and returns true, or returns false; the
\* array is not read after a failure, one content stands for all
RandomOutcomes ==
  { [good |-> TRUE, buf |-> b] : b \in IVs }
    \cup { [good |-> FALSE, buf |-> << 0, 1, 2, 3, 4, 5, 6, 7, 8, 9, 10, 11, 12, 13, 14, 15 >>] }

\* byte i of the ciphertext is replaced by itself ^ m: the first and the last
\* byte of the IV and of each block; 17 turns a pad byte 16 into 1 and 1 into 16
TamperAt == { 1, 16, 17, 32, 33, 48 }

TamperMasks == { 17 }

\* the ciphertext is cut or extended (with zero bytes) to n bytes
ResizeLengths == { 0, 16, 31, 32, 33 }

tamper(c, i, m) == [c EXCEPT ![i] = Xor8(c[i], m)]

resize(c, n) == SubSeq([j \in 1..n |-> IF j <= Len(c) THEN c[j] ELSE 0], 1, n)

\* no encryption recorded
NoRecord == [key |-> << >>, iv |-> << >>, plain |-> << >>, cipher |-> << >>]

(***************************************************************************)
(* setKey, encrypt and decrypt tabulated over the inputs of the model.     *)
(* TLC would otherwise compute SHA-256 and AES anew for every action in    *)
(* every state; the tables are computed once, in Init, and kept in tab,    *)
(* where the actions look the calls up.  @@ makes TLC enumerate a function *)
(* [x \in S |-> e], which alone is evaluated at every application.  The    *)
(* tables take the inputs as a parameter: TLC computes them for the        *)
(* specification that is run and not for the others.                       *)
(***************************************************************************)
KeyTable(pws) == [pw \in pws |-> setKey(pw)] @@ << >>

\* the members (key, ctx) of the AESCipher whose key is k
CipherOf(kt, k) == CHOOSE c \in { kt[pw] : pw \in Passwords } : c.key = k

EncryptTable(kt) ==
  [k \in { kt[pw].key : pw \in Passwords } |->
     Only({ [p \in Plains, rnd \in RandomOutcomes |-> encrypt(c.ctx, p, rnd)] @@ << >> :
              c \in { CipherOf(kt, k) } })] @@ << >>

\* what encrypt returns when it succeeds
Ciphertexts(et) ==
  { et[k][x].ret : k \in DOMAIN et, x \in { y \in Plains \X RandomOutcomes : y[2].good } }

\* every byte sequence that can reach decrypt
Wires(cts) ==
  { << >> } \cup cts
    \cup UNION { { tamper(c, i, m) : i \in TamperAt \cap (1..Len(c)), m \in TamperMasks } :
                 c \in cts }
    \cup UNION { { resize(c, n) : n \in ResizeLengths } : c \in cts }

DecryptTable(kt, ws) ==
  [k \in { kt[pw].key : pw \in Passwords } |->
     Only({ [w \in ws |-> decrypt(c.ctx, w)] @@ << >> : c \in { CipherOf(kt, k) } })] @@ << >>

Tables(pws) ==
  Only({ Only({ Only({ [setKey |-> kt, encrypt |-> et, decrypt |-> DecryptTable(kt, ws)] :
                         ws \in { Wires(cts) : cts \in { Ciphertexts(et) } } }) :
                  et \in { EncryptTable(kt) } }) :
           kt \in { KeyTable(pws) } })

(***************************************************************************)
(* The state machine: an AESCipher (key, ctx) as CryptVaultApp uses it.    *)
(* key = << >> stands for the members before the first setKey; every call  *)
(* of encrypt and decrypt in the program follows a setKey of the same menu *)
(* action.  call = "menu" is the loop of CryptVaultApp::run waiting for    *)
(* the next choice.                                                        *)
(***************************************************************************)
Init ==
  /\ tab = Tables(Passwords)
  /\ NotStepped
  /\ key = << >>
  /\ ctx = [Nr |-> 0, roundKey |-> << >>]
  /\ call = "none"
  /\ arg = << >>
  /\ ret = << >>
  /\ ok = FALSE
  /\ blocks = 0
  /\ iv = << >>
  /\ sent = NoRecord
  /\ twin = NoRecord
  /\ wire = << >>

SetKey(pw) ==
  /\ key' = tab.setKey[pw].key
  /\ ctx' = tab.setKey[pw].ctx
  /\ call' = "setKey"
  /\ arg' = pw
  /\ ret' = << >>
  /\ ok' = TRUE
  /\ blocks' = 0
  /\ iv' = << >>
  /\ UNCHANGED << tab, loc, run, cin, fs, out, sent, twin, wire >>

\* faulty Encrypt: the IV of the last encryption is kept and used again
EncryptStaleIV(p, rnd) ==
  /\ key # << >>
  /\ call # "menu"
  /\ LET used == IF rnd.good /\ sent # NoRecord THEN [good |-> TRUE, buf |-> sent.iv] ELSE rnd
         r == tab.encrypt[key][p, used]
     IN /\ call' = "encrypt"
        /\ arg' = p
        /\ ret' = r.ret
        /\ ok' = r.ok
        /\ blocks' = r.blocks
        /\ iv' = IF rnd.good THEN rnd.buf ELSE << >>
        /\ sent' = IF r.ok THEN [key |-> key, iv |-> used.buf, plain |-> p, cipher |-> r.ret]
                   ELSE sent
        /\ twin' = IF ~ r.ok THEN twin
                   ELSE IF sent # NoRecord /\ sent.key = key /\ sent.plain = p THEN sent
                   ELSE NoRecord
        /\ wire' = IF r.ok THEN r.ret ELSE wire
  /\ UNCHANGED << tab, loc, run, cin, fs, out, key, ctx >>

\* AESCipher::encrypt on the members; rnd is what generateRandomBytes gives
\* in this call (line 345, the one call of it in encrypt)
Encrypt(p, rnd) ==
  /\ key # << >>
  /\ call # "menu"
  /\ LET r == tab.encrypt[key][p, rnd]
     IN /\ call' = "encrypt"
        /\ arg' = p
        /\ ret' = r.ret
        /\ ok' = r.ok
        /\ blocks' = r.blocks
        /\ iv' = IF rnd.good THEN rnd.buf ELSE << >>
        /\ sent' = IF r.ok THEN [key |-> key, iv |-> rnd.buf, plain |-> p, cipher |-> r.ret]
                   ELSE sent
        /\ twin' = IF ~ r.ok THEN twin
                   ELSE IF sent # NoRecord /\ sent.key = key /\ sent.plain = p THEN sent
                   ELSE NoRecord
        /\ wire' = IF r.ok THEN r.ret ELSE wire
  /\ UNCHANGED << tab, loc, run, cin, fs, out, key, ctx >>

Tamper(i, m) ==
  /\ sent # NoRecord
  /\ wire = sent.cipher
  /\ i \in 1..Len(wire)
  /\ wire' = tamper(wire, i, m)
  /\ UNCHANGED << tab, loc, run, cin, fs, out, key, ctx, call, arg, ret, ok, blocks, iv, sent, twin >>

Resize(n) ==
  /\ sent # NoRecord
  /\ wire = sent.cipher
  /\ n # Len(wire)
  /\ wire' = resize(wire, n)
  /\ UNCHANGED << tab, loc, run, cin, fs, out, key, ctx, call, arg, ret, ok, blocks, iv, sent, twin >>

Decrypt(c) ==
  /\ key # << >>
  /\ call # "menu"
  /\ LET r == tab.decrypt[key][c]
     IN /\ call' = "decrypt"
        /\ arg' = c
        /\ ret' = r.ret
        /\ ok' = r.ok
        /\ blocks' = r.blocks
        /\ iv' = << >>
  /\ UNCHANGED << tab, loc, run, cin, fs, out, key, ctx, sent, twin, wire >>

\* the menu action ends ("break" of the switch) and run loops: the locals of
\* the action are gone; nothing in run or in AESCipher writes key or ctx
Menu ==
  /\ call \notin { "none", "menu" }
  /\ call' = "menu"
  /\ arg' = << >>
  /\ ret' = << >>
  /\ ok' = FALSE
  /\ blocks' = 0
  /\ iv' = << >>
  /\ UNCHANGED << tab, loc, run, cin, fs, out, key, ctx, sent, twin, wire >>

Next ==
  \/ \E pw \in Passwords : SetKey(pw)
  \/ \E p \in Plains, rnd \in RandomOutcomes : Encrypt(p, rnd)
  \/ \E i \in TamperAt, m \in TamperMasks : Tamper(i, m)
  \/ \E n \in ResizeLengths : Resize(n)
  \/ \E c \in { wire } \cup (IF twin = NoRecord THEN { } ELSE { twin.cipher }) : Decrypt(c)
  \/ Menu

Spec == Init /\ [][Next]_vars

(***************************************************************************)
(* pkcs7Pad and pkcs7Unpad on their own.  arg is the data given to         *)
(* pkcs7Pad, wire the vector pkcs7Unpad is called on, ok the bool it       *)
(* returns and ret the vector the last call left.                          *)
(***************************************************************************)
MaxDataLen == 1000

\* the vectors up to this length are also damaged before pkcs7Unpad sees them
MaxDamagedLen == 17

FillBytes == { 0, 1, 16, 65 }

DamageBytes == { 0, 1, 2, 16, 17, 255 }

PadData == { SubSeq([i \in 1..n |-> b], 1, n) : n \in 0..MaxDataLen, b \in FillBytes }

PadInit ==
  /\ tab = << >>
  /\ NotStepped
  /\ key = << >>
  /\ ctx = [Nr |-> 0, roundKey |-> << >>]
  /\ call = "none"
  /\ arg \in PadData
  /\ ret = << >>
  /\ ok = FALSE
  /\ blocks = 0
  /\ iv = << >>
  /\ sent = NoRecord
  /\ twin = NoRecord
  /\ wire = << >>

Pad ==
  /\ call = "none"
  /\ call' = "pkcs7Pad"
  /\ ret' = pkcs7Pad(arg)
  /\ wire' = pkcs7Pad(arg)
  /\ UNCHANGED << tab, loc, run, cin, fs, out, key, ctx, arg, ok, blocks, iv, sent, twin >>

\* one byte of the padded vector is overwritten
Damage(i, b) ==
  /\ call = "pkcs7Pad"
  /\ wire = ret
  /\ Len(arg) <= MaxDamagedLen
  /\ i \in 1..Len(wire)
  /\ wire' = [wire EXCEPT ![i] = b]
  /\ UNCHANGED << tab, loc, run, cin, fs, out, key, ctx, call, arg, ret, ok, blocks, iv, sent, twin >>

\* the padded vector is cut to n bytes
Truncate(n) ==
  /\ call = "pkcs7Pad"
  /\ wire = ret
  /\ Len(arg) <= MaxDamagedLen
  /\ n < Len(wire)
  /\ wire' = SubSeq(wire, 1, n)
  /\ UNCHANGED << tab, loc, run, cin, fs, out, key, ctx, call, arg, ret, ok, blocks, iv, sent, twin >>

Unpad ==
  /\ call = "pkcs7Pad"
  /\ LET r == pkcs7Unpad(wire)
     IN /\ call' = "pkcs7Unpad"
        /\ ok' = r.ok
        /\ ret' = r.data
  /\ UNCHANGED << tab, loc, run, cin, fs, out, key, ctx, arg, blocks, iv, sent, twin, wire >>

PadNext ==
  \/ Pad
  \/ \E i \in 1..(MaxDamagedLen + 16), b \in DamageBytes : Damage(i, b)
  \/ \E n \in 0..(MaxDamagedLen + 16) : Truncate(n)
  \/ Unpad

SpecPad == PadInit /\ [][PadNext]_vars

(***************************************************************************)
(* The functions under AESCipher on their own: SHA256Impl::hash and toHex  *)
(* (as hashFile calls them), Context::keyExpansion, encryptBlock and       *)
(* decryptBlock, setKey, bytesToHex and hexToBytes, encryptText and        *)
(* decryptText.  As in Spec the calls of SHA-256 and AES are computed once, *)
(* in UnitInit, and kept in tab.  arg is the bytes given, ret the bytes    *)
(* returned, wire the hex text, blocks the number of block calls since the *)
(* schedule was built.                                                     *)
(***************************************************************************)
\* block calls in a row on one schedule
MaxBlockOps == 3

\* "", "abc" and the 56-byte message of FIPS 180 (it needs a second block)
HashInputs ==
  { << >>,
    << 97, 98, 99 >>,
    << 97, 98, 99, 100, 98, 99, 100, 101, 99, 100, 101, 102, 100, 101, 102,
       103, 101, 102, 103, 104, 102, 103, 104, 105, 103, 104, 105, 106, 104,
       105, 106, 107, 105, 106, 107, 108, 106, 107, 108, 109, 107, 108, 109,
       110, 108, 109, 110, 111, 109, 110, 111, 112, 110, 111, 112, 113 >> }

\* the 256-bit key of FIPS 197 (appendix C.3)
FipsKey ==
  << 0, 1, 2, 3, 4, 5, 6, 7, 8, 9, 10, 11, 12, 13, 14, 15, 16, 17, 18,
     19, 20, 21, 22, 23, 24, 25, 26, 27, 28, 29, 30, 31 >>

ZeroBlock == << 0, 0, 0, 0, 0, 0, 0, 0, 0, 0, 0, 0, 0, 0, 0, 0 >>

\* the plaintext block of FIPS 197 (appendix C.3)
FipsBlock ==
  << 0, 17, 34, 51, 68, 85, 102, 119, 136, 153, 170, 187, 204, 221, 238, 255 >>

BlockKeys ==
  { FipsKey,
    SubSeq([i \in 1..32 |-> 0], 1, 32),
    SubSeq([i \in 1..32 |-> 255 - 7 * i], 1, 32) }

Blocks ==
  { ZeroBlock,
    FipsBlock,
    SubSeq([i \in 1..16 |-> 255], 1, 16),
    SubSeq([i \in 1..16 |-> (83 * i) % 256], 1, 16) }

HexByteValues == { 0, 9, 10, 15, 16, 127, 171, 255 }

\* the byte sequences given to bytesToHex
HexBytes ==
  { << >> } \cup { << a >> : a \in HexByteValues }
    \cup { << a, b >> : a, b \in HexByteValues }
    \cup { << 0, 1, a >> : a \in HexByteValues }

\* hex texts that do not come from bytesToHex: capitals, an odd length, a
\* character that is no digit, white space and signs
PastedTexts ==
  { << "A", "B", "c", "d" >>, << "1", "2", "3" >>, << "f" >>, << "0", "x", "4", "1" >>,
    << "7", "g" >>, << "g", "7" >>, << " ", "7" >>, << "-", "1" >>, << "+", "f" >>,
    << "-", "-" >> }

HashTable(inputs) == [data \in inputs |-> hash(data)] @@ << >>

\* the members (key, ctx) after keyExpansion(k) and after setKey(pw), by key
ScheduleTable(kt) ==
  Only({ [k \in BlockKeys \cup { c.key : c \in cs } |->
            IF k \in BlockKeys THEN keyExpansion(k)
            ELSE (CHOOSE c \in cs : c.key = k).ctx] @@ << >> :
           cs \in { { kt[pw] : pw \in Passwords } } })

\* encryptBlock and decryptBlock of the schedule self on the blocks of t, on
\* what they return, and so on for n more calls in a row
RECURSIVE BlockTable(_, _, _)
BlockTable(self, t, n) ==
  IF n = 0 THEN t
  ELSE Only({ BlockTable(self, next, n - 1) :
                next \in { [b \in more |-> IF b \in DOMAIN t THEN t[b]
                                           ELSE [enc |-> encryptBlock(self, b),
                                                 dec |-> decryptBlock(self, b)]] @@ << >> :
                more \in { DOMAIN t \cup { t[b].enc : b \in DOMAIN t }
                                     \cup { t[b].dec : b \in DOMAIN t } } } })

BlockTables(st) ==
  [k \in DOMAIN st |->
     Only({ Only({ BlockTable(self, first, MaxBlockOps - 1) :
                     first \in { [b \in Blocks |-> [enc |-> encryptBlock(self, b),
                                                    dec |-> decryptBlock(self, b)]] @@ << >> } }) :
              self \in { st[k] } })] @@ << >>

\* the byte sequences decryptText gives to decrypt
TextWires(cts) ==
  { Only({ hexToBytes(hex) : hex \in { bytesToHex(c) } }) : c \in cts \cup { << >> } }

UnitTables(pws, inputs) ==
  Only({ Only({ Only({ [hash |-> ht, setKey |-> kt, schedule |-> st,
                        block |-> BlockTables(st),
                        encrypt |-> et, decrypt |-> DecryptTable(kt, ws)] :
                         ht \in { HashTable(inputs) },
                         st \in { ScheduleTable(kt) },
                         ws \in { TextWires(cts) : cts \in { Ciphertexts(et) } } }) :
                  et \in { EncryptTable(kt) } }) :
           kt \in { KeyTable(pws) } })

UnitInit ==
  /\ tab = UnitTables(Passwords, HashInputs)
  /\ NotStepped
  /\ key = << >>
  /\ ctx = [Nr |-> 0, roundKey |-> << >>]
  /\ call = "none"
  /\ arg = << >>
  /\ ret = << >>
  /\ ok = FALSE
  /\ blocks = 0
  /\ iv = << >>
  /\ sent = NoRecord
  /\ twin = NoRecord
  /\ wire = << >>

\* AESCipher::hashFile on a file that holds data
HashFile(data) ==
  /\ call = "none"
  /\ call' = "hashFile"
  /\ arg' = data
  /\ ret' = tab.hash[data]
  /\ wire' = toHex(tab.hash[data])
  /\ ok' = TRUE
  /\ UNCHANGED << tab, loc, run, cin, fs, out, key, ctx, blocks, iv, sent, twin >>

\* Context::keyExpansion on a key given as it is
KeyExpansion(k) ==
  /\ call = "none"
  /\ call' = "keyExpansion"
  /\ arg' = k
  /\ key' = k
  /\ ctx' = tab.schedule[k]
  /\ UNCHANGED << tab, loc, run, cin, fs, out, ret, ok, blocks, iv, sent, twin, wire >>

\* AESCipher::setKey, at first and again on a cipher that has a key
SetKeyCall(pw) ==
  /\ call \in { "none", "setKey" }
  /\ call' = "setKey"
  /\ arg' = pw
  /\ key' = tab.setKey[pw].key
  /\ ctx' = tab.setKey[pw].ctx
  /\ UNCHANGED << tab, loc, run, cin, fs, out, ret, ok, blocks, iv, sent, twin, wire >>

\* the blocks given to the block cipher: after a schedule is built one of
\* Blocks, after a block call the block that call returned
BlockArgs ==
  IF call \in { "keyExpansion", "setKey" } THEN Blocks
  ELSE IF call \in { "encryptBlock", "decryptBlock" } THEN { ret }
  ELSE { }

\* faulty EncryptBlock: the call leaves the round key of round 0 xored into the block
EncryptBlockWritesKey(b) ==
  /\ blocks < MaxBlockOps
  /\ call' = "encryptBlock"
  /\ arg' = b
  /\ ret' = tab.block[key][b].enc
  /\ ctx' = [ctx EXCEPT !.roundKey = [i \in 1..240 |-> IF i <= 16 THEN b[i] ELSE ctx.roundKey[i]]]
  /\ blocks' = blocks + 1
  /\ UNCHANGED << tab, loc, run, cin, fs, out, key, ok, iv, sent, twin, wire >>

\* Context::encryptBlock on the schedule in ctx
EncryptBlock(b) ==
  /\ blocks < MaxBlockOps
  /\ call' = "encryptBlock"
  /\ arg' = b
  /\ ret' = tab.block[key][b].enc
  /\ blocks' = blocks + 1
  /\ UNCHANGED << tab, loc, run, cin, fs, out, key, ctx, ok, iv, sent, twin, wire >>

\* Context::decryptBlock on the schedule in ctx
DecryptBlock(b) ==
  /\ blocks < MaxBlockOps
  /\ call' = "decryptBlock"
  /\ arg' = b
  /\ ret' = tab.block[key][b].dec
  /\ blocks' = blocks + 1
  /\ UNCHANGED << tab, loc, run, cin, fs, out, key, ctx, ok, iv, sent, twin, wire >>

\* AESCipher::encryptText: ret is what encrypt returned, wire the text returned
EncryptText(p, rnd) ==
  /\ call = "setKey"
  /\ call' = "encryptText"
  /\ arg' = p
  /\ LET r == tab.encrypt[key][p, rnd]
     IN /\ ret' = r.ret
        /\ ok' = r.ok
        /\ wire' = bytesToHex(r.ret)
  /\ iv' = IF rnd.good THEN rnd.buf ELSE << >>
  /\ UNCHANGED << tab, loc, run, cin, fs, out, key, ctx, blocks, sent, twin >>

\* AESCipher::decryptText on the text in wire: arg is what hexToBytes gave,
\* ret the bytes of the string returned ("" when decrypt returned no byte)
DecryptText ==
  /\ call = "encryptText"
  /\ call' = "decryptText"
  /\ \E data \in { hexToBytes(wire) } :
       /\ arg' = data
       /\ ret' = tab.decrypt[key][data].ret
       /\ ok' = tab.decrypt[key][data].ok
  /\ iv' = << >>
  /\ UNCHANGED << tab, loc, run, cin, fs, out, key, ctx, blocks, sent, twin, wire >>

BytesToHex(data) ==
  /\ call = "none"
  /\ call' = "bytesToHex"
  /\ arg' = data
  /\ wire' = bytesToHex(data)
  /\ UNCHANGED << tab, loc, run, cin, fs, out, key, ctx, ret, ok, blocks, iv, sent, twin >>

\* a hex text typed at "Enter hex ciphertext"
Paste(text) ==
  /\ call = "none"
  /\ call' = "paste"
  /\ wire' = text
  /\ UNCHANGED << tab, loc, run, cin, fs, out, key, ctx, arg, ret, ok, blocks, iv, sent, twin >>

HexToBytes ==
  /\ call \in { "bytesToHex", "paste" }
  /\ call' = "hexToBytes"
  /\ ret' = hexToBytes(wire)
  /\ UNCHANGED << tab, loc, run, cin, fs, out, key, ctx, arg, ok, blocks, iv, sent, twin, wire >>

UnitNext ==
  \/ \E data \in HashInputs : HashFile(data)
  \/ \E k \in BlockKeys : KeyExpansion(k)
  \/ \E pw \in Passwords : SetKeyCall(pw)
  \/ \E b \in BlockArgs : EncryptBlock(b)
  \/ \E b \in BlockArgs : DecryptBlock(b)
  \/ \E p \in Plains, rnd \in RandomOutcomes : EncryptText(p, rnd)
  \/ DecryptText
  \/ \E data \in HexBytes : BytesToHex(data)
  \/ \E text \in PastedTexts : Paste(text)
  \/ HexToBytes

SpecUnit == UnitInit /\ [][UnitNext]_vars
(***************************************************************************)
(* Context::keyExpansion followed statement by statement.  ctx.roundKey is *)
(* the array of 240 bytes, 1-based here: roundKey[n] of the source is      *)
(* ctx.roundKey[n + 1]; a byte that was never written is -1.  loc          *)
(* holds the loop variable i and, for the statement just executed, the     *)
(* indices (0-based, as in the source) it read and wrote in roundKey and   *)
(* the index it used in rcon; loc.count[n] is the number of times          *)
(* roundKey[n] was written since the call.                                 *)
(***************************************************************************)
\* the body of "for (int i = Nk; i < 4 * (Nr + 1); i++)" for one i
keyExpansionBody(roundKey, i) ==
  LET Nk == 8
  IN Only({ [roundKey |-> [n \in 1..240 |->
                             IF n - 1 \in { i * 4 + j : j \in 0..3 }
                               THEN w[n - i * 4] ELSE roundKey[n]],
             reads |-> { (i - 1) * 4 + j : j \in 0..3 }
                         \cup { (i - Nk) * 4 + j : j \in 0..3 },
             writes |-> { i * 4 + j : j \in 0..3 },
             rcon |-> IF i % Nk = 0 THEN { i \div Nk } ELSE { }] :
              w \in { keyWord(roundKey, i) } })

KeyInit ==
  /\ tab = << >>
  /\ key = << >>
  /\ ctx = [Nr |-> 0, roundKey |-> SubSeq([n \in 1..240 |-> 0 - 1], 1, 240)]
  /\ call = "none"
  /\ arg = << >>
  /\ ret = << >>
  /\ ok = FALSE
  /\ blocks = 0
  /\ iv = << >>
  /\ sent = NoRecord
  /\ twin = NoRecord
  /\ wire = << >>
  /\ loc = [pc |-> "call", i |-> 0, reads |-> { }, writes |-> { }, rcon |-> { },
            count |-> [n \in 0..239 |-> 0]]
  /\ run = << >>
  /\ cin = << >>
  /\ fs = << >>
  /\ out = << >>

\* "Nr = 14; int Nk = 8; memcpy(roundKey, key, 32);" and "int i = Nk"
KeyExpansionEnter(k) ==
  /\ loc.pc = "call"
  /\ call' = "keyExpansion"
  /\ arg' = k
  /\ ctx' = [Nr |-> 14,
             roundKey |-> [n \in 1..240 |-> IF n <= 32 THEN k[n] ELSE ctx.roundKey[n]]]
  /\ loc' = [pc |-> "loop", i |-> 8, reads |-> { }, writes |-> 0..31, rcon |-> { },
             count |-> [n \in 0..239 |-> IF n \in 0..31 THEN 1 ELSE 0]]
  /\ UNCHANGED << tab, key, ret, ok, blocks, iv, sent, twin, wire, run, cin, fs, out >>

\* faulty KeyExpansionStep: the loop runs while i <= 4 * (Nr + 1)
KeyExpansionStepPast ==
  /\ loc.pc = "loop"
  /\ loc.i <= 4 * (ctx.Nr + 1)
  /\ \E b \in { keyExpansionBody(ctx.roundKey, loc.i) } :
       /\ ctx' = [ctx EXCEPT !.roundKey = b.roundKey]
       /\ loc' = [pc |-> "loop", i |-> loc.i + 1, reads |-> b.reads, writes |-> b.writes,
                  rcon |-> b.rcon,
                  count |-> [n \in 0..239 |-> IF n \in b.writes THEN loc.count[n] + 1
                                               ELSE loc.count[n]]]
  /\ UNCHANGED << tab, key, call, arg, ret, ok, blocks, iv, sent, twin, wire, run, cin,
                  fs, out >>

\* one turn of the loop: the test i < 4 * (Nr + 1), the body and i++
KeyExpansionStep ==
  /\ loc.pc = "loop"
  /\ loc.i < 4 * (ctx.Nr + 1)
  /\ \E b \in { keyExpansionBody(ctx.roundKey, loc.i) } :
       /\ ctx' = [ctx EXCEPT !.roundKey = b.roundKey]
       /\ loc' = [pc |-> "loop", i |-> loc.i + 1, reads |-> b.reads, writes |-> b.writes,
                  rcon |-> b.rcon,
                  count |-> [n \in 0..239 |-> IF n \in b.writes THEN loc.count[n] + 1
                                               ELSE loc.count[n]]]
  /\ UNCHANGED << tab, key, call, arg, ret, ok, blocks, iv, sent, twin, wire, run, cin,
                  fs, out >>

\* the test fails: keyExpansion returns
KeyExpansionReturn ==
  /\ loc.pc = "loop"
  /\ ~(loc.i < 4 * (ctx.Nr + 1))
  /\ loc' = [loc EXCEPT !.pc = "return", !.reads = { }, !.writes = { }, !.rcon = { }]
  /\ UNCHANGED << tab, key, ctx, call, arg, ret, ok, blocks, iv, sent, twin, wire, run,
                  cin, fs, out >>

KeyNext ==
  \/ \E k \in BlockKeys : KeyExpansionEnter(k)
  \/ KeyExpansionStep
  \/ KeyExpansionReturn

SpecKey == KeyInit /\ [][KeyNext]_vars

(***************************************************************************)
(* SHA256Impl::hash followed statement by statement: the padding, byte by  *)
(* byte, and the loop over the blocks.  arg is the message, loc.msg the    *)
(* vector msg, loc.h the array h (as in compress), loc.off the loop        *)
(* variable and loc.done the offsets of the blocks compressed so far.      *)
(***************************************************************************)
\* the longest message hashed step by step (two blocks of padding and more)
MaxMsgLen == 120

\* the message of len bytes; it holds the bytes 0x80 and 0x00 of the padding
MsgOfLen(len) == SubSeq([j \in 1..len |-> << 128, 0, 97, 255 >>[(j % 4) + 1]], 1, len)

ShaInit ==
  /\ tab = << >>
  /\ key = << >>
  /\ ctx = [Nr |-> 0, roundKey |-> << >>]
  /\ call = "none"
  /\ arg = << >>
  /\ ret = << >>
  /\ ok = FALSE
  /\ blocks = 0
  /\ iv = << >>
  /\ sent = NoRecord
  /\ twin = NoRecord
  /\ wire = << >>
  /\ loc = [pc |-> "call", msg |-> << >>, bitlen |-> 0, h |-> H0, off |-> 0, done |-> << >>]
  /\ run = << >>
  /\ cin = << >>
  /\ fs = << >>
  /\ out = << >>

\* faulty HashEnter: bitlen is the length in bytes
HashEnterByteLength(data) ==
  /\ loc.pc = "call"
  /\ call' = "hash"
  /\ arg' = data
  /\ loc' = [pc |-> "marker", msg |-> data, bitlen |-> Len(data), h |-> H0, off |-> 0,
             done |-> << >>]
  /\ UNCHANGED << tab, key, ctx, ret, ok, blocks, iv, sent, twin, wire, run, cin, fs, out >>

\* "uint32 h[8] = {...}; uint64 bitlen = (uint64)len * 8; vector msg(data, data + len);"
HashEnter(data) ==
  /\ loc.pc = "call"
  /\ call' = "hash"
  /\ arg' = data
  /\ loc' = [pc |-> "marker", msg |-> data, bitlen |-> Len(data) * 8, h |-> H0, off |-> 0,
             done |-> << >>]
  /\ UNCHANGED << tab, key, ctx, ret, ok, blocks, iv, sent, twin, wire, run, cin, fs, out >>

\* msg.push_back(0x80)
HashPushMarker ==
  /\ loc.pc = "marker"
  /\ loc' = [loc EXCEPT !.pc = "zeros", !.msg = Append(loc.msg, 128)]
  /\ UNCHANGED << tab, key, ctx, call, arg, ret, ok, blocks, iv, sent, twin, wire, run, cin,
                  fs, out >>

\* one turn of "while ((msg.size() % 64) != 56) msg.push_back(0x00)"
HashPushZero ==
  /\ loc.pc = "zeros"
  /\ (Len(loc.msg) % 64) # 56
  /\ loc' = [loc EXCEPT !.msg = Append(loc.msg, 0)]
  /\ UNCHANGED << tab, key, ctx, call, arg, ret, ok, blocks, iv, sent, twin, wire, run, cin,
                  fs, out >>

\* the while loop ends; "for (int i = 7; i >= 0; i--)
\* msg.push_back((unsigned char)(bitlen >> (i * 8)))"; then "size_t off = 0".
\* bitlen is below 2^31 here: the bytes i >= 4 of the uint64 are 0
HashPushLength ==
  /\ loc.pc = "zeros"
  /\ (Len(loc.msg) % 64) = 56
  /\ loc' = [loc EXCEPT !.pc = "blocks", !.off = 0,
                        !.msg = loc.msg \o [k \in 1..8 |->
                                  IF 8 - k >= 4 THEN 0
                                  ELSE (loc.bitlen \div << 1, 256, 65536, 16777216 >>[8 - k + 1])
                                         % 256]]
  /\ UNCHANGED << tab, key, ctx, call, arg, ret, ok, blocks, iv, sent, twin, wire, run, cin,
                  fs, out >>

\* one turn of "for (size_t off = 0; off < msg.size(); off += 64)"
HashBlock ==
  /\ loc.pc = "blocks"
  /\ loc.off < Len(loc.msg)
  /\ loc' = [loc EXCEPT !.h = compress(loc.h, loc.msg, loc.off), !.off = loc.off + 64,
                        !.done = Append(loc.done, loc.off)]
  /\ UNCHANGED << tab, key, ctx, call, arg, ret, ok, blocks, iv, sent, twin, wire, run, cin,
                  fs, out >>

\* the loop over the blocks ends: the bytes of h are returned
HashReturn ==
  /\ loc.pc = "blocks"
  /\ ~(loc.off < Len(loc.msg))
  /\ loc' = [loc EXCEPT !.pc = "return"]
  /\ ret' = wordBytes(loc.h[1]) \o wordBytes(loc.h[2]) \o wordBytes(loc.h[3])
              \o wordBytes(loc.h[4]) \o wordBytes(loc.h[5]) \o wordBytes(loc.h[6])
              \o wordBytes(loc.h[7]) \o wordBytes(loc.h[8])
  /\ ok' = TRUE
  /\ UNCHANGED << tab, key, ctx, call, arg, blocks, iv, sent, twin, wire, run, cin, fs, out >>

ShaNext ==
  \/ \E len \in 0..MaxMsgLen : HashEnter(MsgOfLen(len))
  \/ HashPushMarker
  \/ HashPushZero
  \/ HashPushLength
  \/ HashBlock
  \/ HashReturn

SpecSha == ShaInit /\ [][ShaNext]_vars

(***************************************************************************)
(* The round transforms of Context on their own: a 4x4 state is loaded     *)
(* from a block as encryptBlock loads it, one of subBytes, shiftRows and   *)
(* mixColumns is applied to it, and then the transform decryptBlock uses   *)
(* in its place.  loc.state is the array state, loc.before its content     *)
(* before the forward transform, loc.op the forward transform.             *)
(***************************************************************************)
\* sixteen blocks that hold every byte value between them, the blocks given
\* to encryptBlock elsewhere, a block of four well-known columns, and the
\* blocks with a single bit set
RoundBlocks ==
  { SubSeq([i \in 1..16 |-> 16 * k + i - 1], 1, 16) : k \in 0..15 }
    \cup Blocks
    \cup { << 219, 19, 83, 69, 242, 10, 34, 92, 1, 1, 1, 1, 198, 198, 198, 198 >> }
    \cup { SubSeq([i \in 1..16 |-> IF i = p THEN 2 ^ b ELSE 0], 1, 16) : p \in 1..16, b \in 0..7 }

RoundInit ==
  /\ tab = << >>
  /\ key = << >>
  /\ ctx = [Nr |-> 0, roundKey |-> << >>]
  /\ call = "none"
  /\ arg = << >>
  /\ ret = << >>
  /\ ok = FALSE
  /\ blocks = 0
  /\ iv = << >>
  /\ sent = NoRecord
  /\ twin = NoRecord
  /\ wire = << >>
  /\ loc = [pc |-> "call", op |-> "none", state |-> << >>, before |-> << >>]
  /\ run = << >>
  /\ cin = << >>
  /\ fs = << >>
  /\ out = << >>

\* "state[j][i] = block[i*4+j]" for the 16 bytes of the block
RoundLoad(block) ==
  /\ loc.pc = "call"
  /\ arg' = block
  /\ loc' = [pc |-> "loaded", op |-> "none", state |-> loadState(block), before |-> << >>]
  /\ UNCHANGED << tab, key, ctx, call, ret, ok, blocks, iv, sent, twin, wire, run, cin, fs,
                  out >>

\* subBytes(state), shiftRows(state) or mixColumns(state)
RoundForward(op) ==
  /\ loc.pc = "loaded"
  /\ call' = op
  /\ loc' = [pc |-> "forward", op |-> op, before |-> loc.state,
             state |-> CASE op = "subBytes" -> subBytes(loc.state)
                         [] op = "shiftRows" -> shiftRows(loc.state)
                         [] op = "mixColumns" -> mixColumns(loc.state)]
  /\ UNCHANGED << tab, key, ctx, arg, ret, ok, blocks, iv, sent, twin, wire, run, cin, fs,
                  out >>

\* invSubBytes(state), invShiftRows(state) or invMixColumns(state), on what the
\* forward transform left
RoundInverse ==
  /\ loc.pc = "forward"
  /\ call' = CASE loc.op = "subBytes" -> "invSubBytes"
               [] loc.op = "shiftRows" -> "invShiftRows"
               [] loc.op = "mixColumns" -> "invMixColumns"
  /\ loc' = [loc EXCEPT !.pc = "inverse",
                        !.state = CASE loc.op = "subBytes" -> invSubBytes(loc.state)
                                    [] loc.op = "shiftRows" -> invShiftRows(loc.state)
                                    [] loc.op = "mixColumns" -> invMixColumns(loc.state)]
  /\ ret' = storeState(loc'.state)
  /\ UNCHANGED << tab, key, ctx, arg, ok, blocks, iv, sent, twin, wire, run, cin, fs, out >>

RoundNext ==
  \/ \E block \in RoundBlocks : RoundLoad(block)
  \/ \E op \in { "subBytes", "shiftRows", "mixColumns" } : RoundForward(op)
  \/ RoundInverse

SpecRound == RoundInit /\ [][RoundNext]_vars
(***************************************************************************)
(* CryptVaultApp::run: the menu loop on standard input and on the files.   *)
(* A string is a sequence of characters (strings of length 1); a file name *)
(* is a string, a file content a byte vector.                              *)
(*                                                                         *)
(* cin.buf holds the characters typed and not yet read, cin.eof is TRUE    *)
(* when standard input has ended (no further line comes).  The user types  *)
(* whole lines (Feed), and only when the program waits for input.  At the  *)
(* end of input every read fails and leaves an empty string, whether the   *)
(* stream's error flags were cleared or not.                               *)
(*                                                                         *)
(* run holds the locals of run and of batchEncrypt / batchDecrypt, and pc, *)
(* the statement run is at.  The strings inputFile, outputFile, text and   *)
(* pw of run are written before they are read in every menu action; they   *)
(* are emptied when run is back at the menu.  out is what the menu action  *)
(* did so far: the messages it printed (a word for each, with the values   *)
(* printed), the passwords given to setKey, and the calls of the cipher.   *)
(* The texts of the screens, of showFileStats, displayFileContent and      *)
(* hashFile are not kept.                                                  *)
(***************************************************************************)
\* batch sizes typed at "How many files"
MaxFiles == 2

\* the bytes of a string: vector<unsigned char>(text.begin(), text.end()),
\* for the characters typed in passwords and texts
bytesOf(s) ==
  LET charCode(c) ==
        CASE c = "p" -> 112 [] c = "w" -> 119 [] c = "s" -> 115 [] c = "e" -> 101
          [] c = "c" -> 99 [] c = "r" -> 114 [] c = "t" -> 116 [] c = "h" -> 104
          [] c = "i" -> 105
  IN SubSeq([n \in 1..Len(s) |-> charCode(s[n])], 1, Len(s))

\* files that exist and cannot be opened for writing
ReadOnly == { << "r", "o" >> }

\* what the user may type at each prompt of run r; hexes are the texts that
\* encryptText printed at some time, which the user may paste, as they are or
\* with one more character
LinesAt(r, hexes) ==
  CASE r.pc = "menu" ->
         { << "1" >>, << "2" >>, << "3" >>, << "4" >>, << "5" >>, << "6" >>, << "7" >>,
           << "8" >>, << "9" >>, << "1", "0" >>, << "1", "1" >>, << "1", "2" >>, << "0" >>,
           << "x" >>, << "1", "1", "x" >>, << >> }
    [] r.pc \in { "inputFile", "files" } ->
         { << "f" >>, << "n", "o" >> }
           \cup (IF r.choice \in { 2, 6 } THEN { << "f", ".", "e", "n", "c" >> } ELSE { })
           \cup (IF r.choice = 1 THEN { << >> } ELSE { })
    [] r.pc = "outputFile" -> { << >>, << "o", "u", "t" >>, << "r", "o" >> }
    [] r.pc = "text" -> { << >>, << "h", "i" >> }
    [] r.pc = "hex" -> hexes \cup { h \o << "0" >> : h \in hexes } \cup { << "z", "z" >>, << >> }
    [] r.pc = "password" -> { << >>, << "p", "w" >>, << "s", "e", "c", "r", "e", "t" >> }
    [] r.pc = "numFiles" ->
         { << "x" >>, << "0" >> }
           \cup { << << "1", "2", "3", "4", "5", "6", "7", "8", "9" >>[n] >> : n \in 1..MaxFiles }
    [] r.pc = "pause" -> { << >>, << "1", "1" >> }
    [] OTHER -> { }

\* the characters of buf from the first that is no white space (isspace)
RECURSIVE skipws(_)
skipws(buf) == IF buf # << >> /\ buf[1] \in { " ", "\n" } THEN skipws(Tail(buf)) ELSE buf

\* "cin >> n" for an int n and the "cin.ignore(max, '\n')" that follows it at
\* both places (after cin.clear() when the extraction failed): leading white
\* space is skipped, the digits are read, the rest of the line is dropped
\* with its '\n'.  good is FALSE when there is no digit to read
readInt(c) ==
  LET Digits == << "0", "1", "2", "3", "4", "5", "6", "7", "8", "9" >>
      RECURSIVE readDigits(_, _)
      readDigits(buf, n) ==
        IF buf # << >> /\ \E d \in 1..10 : Digits[d] = buf[1]
          THEN readDigits(Tail(buf), 10 * n + (CHOOSE d \in 1..10 : Digits[d] = buf[1]) - 1)
          ELSE [value |-> n, rest |-> buf]
      b == skipws(c.buf)
      d == readDigits(b, 0)
      ends == { i \in 1..Len(d.rest) : d.rest[i] = "\n" }
      n == IF ends = { } THEN Len(d.rest) ELSE CHOOSE i \in ends : \A j \in ends : i <= j
  IN [good |-> d.rest # b, value |-> d.value,
      cin |-> [c EXCEPT !.buf = SubSeq(d.rest, n + 1, Len(d.rest))]]

\* getline(cin, str): str gets the characters before the first '\n', which is
\* read too (all the characters when there is no '\n')
getline(c) ==
  LET ends == { i \in 1..Len(c.buf) : c.buf[i] = "\n" }
      n == IF ends = { } THEN Len(c.buf) + 1 ELSE CHOOSE i \in ends : \A j \in ends : i <= j
  IN [str |-> SubSeq(c.buf, 1, n - 1), cin |-> [c EXCEPT !.buf = SubSeq(c.buf, n + 1, Len(c.buf))]]

\* FileHelper
addEncExtension(f) == f \o << ".", "e", "n", "c" >>

hasEncExtension(f) ==
  Len(f) > 4 /\ SubSeq(f, Len(f) - 4 + 1, Len(f)) = << ".", "e", "n", "c" >>

removeEncExtension(f) ==
  IF Len(f) > 4 /\ SubSeq(f, Len(f) - 4 + 1, Len(f)) = << ".", "e", "n", "c" >>
    THEN SubSeq(f, 1, Len(f) - 4)
    ELSE f

\* a faulty encryptFile: the output stream is opened (and so the file
\* created or emptied) before the input is encrypted
encryptFileOpensFirst(self, rnd, files, inputFile, outputFile) ==
  IF inputFile \notin DOMAIN files
    THEN [ret |-> FALSE, why |-> "open", fs |-> files, data |-> << >>, enc |-> << >>]
  ELSE LET data == files[inputFile]
           enc == self.encrypt[data, rnd].ret
       IN IF outputFile = << >> \/ outputFile \in ReadOnly
            THEN [ret |-> FALSE, why |-> "create", fs |-> files, data |-> data, enc |-> enc]
          ELSE [ret |-> enc # << >>, why |-> IF enc = << >> THEN "cipher" ELSE "written",
                data |-> data, enc |-> enc,
                fs |-> [n \in DOMAIN files \cup { outputFile } |->
                          IF n = outputFile THEN enc ELSE files[n]]]

\* AESCipher::encryptFile on the files.  self is the AESCipher with its key:
\* self.encrypt[data, rnd] is what encrypt(data) returns when generateRandomBytes
\* gives rnd, self.decrypt[data] what decrypt(data) returns.  why names the
\* return statement
encryptFile(self, rnd, files, inputFile, outputFile) ==
  IF inputFile \notin DOMAIN files
    THEN [ret |-> FALSE, why |-> "open", fs |-> files, data |-> << >>, enc |-> << >>]
  ELSE LET data == files[inputFile]
           enc == self.encrypt[data, rnd].ret
       IN IF enc = << >>
            THEN [ret |-> FALSE, why |-> "cipher", fs |-> files, data |-> data, enc |-> enc]
          ELSE IF outputFile = << >> \/ outputFile \in ReadOnly
            THEN [ret |-> FALSE, why |-> "create", fs |-> files, data |-> data, enc |-> enc]
          ELSE [ret |-> TRUE, why |-> "written", data |-> data, enc |-> enc,
                fs |-> [n \in DOMAIN files \cup { outputFile } |->
                          IF n = outputFile THEN enc ELSE files[n]]]

\* AESCipher::decryptFile on the files
decryptFile(self, files, inputFile, outputFile) ==
  IF inputFile \notin DOMAIN files
    THEN [ret |-> FALSE, why |-> "open", fs |-> files, data |-> << >>, dec |-> << >>]
  ELSE LET data == files[inputFile]
           dec == self.decrypt[data].ret
       IN IF dec = << >>
            THEN [ret |-> FALSE, why |-> "cipher", fs |-> files, data |-> data, dec |-> dec]
          ELSE IF outputFile = << >> \/ outputFile \in ReadOnly
            THEN [ret |-> FALSE, why |-> "create", fs |-> files, data |-> data, dec |-> dec]
          ELSE [ret |-> TRUE, why |-> "written", data |-> data, dec |-> dec,
                fs |-> [n \in DOMAIN files \cup { outputFile } |->
                          IF n = outputFile THEN dec ELSE files[n]]]

\* what generateRandomBytes gives in the menu loop: one IV, or a failure
AppRandom == { rnd \in RandomOutcomes : rnd.buf = << 0, 1, 2, 3, 4, 5, 6, 7, 8, 9, 10, 11, 12, 13, 14, 15 >> }

\* setKey, encrypt and decrypt tabulated for the menu loop: encrypt on the
\* file contents (plains) and on the texts typed, decrypt on these, on what
\* encrypt returned for them (under either key) and on what hexToBytes gives
\* for a text that is no ciphertext; hex holds the texts encryptText prints
AppTables(pws, plains, texts) ==
  LET first == plains \cup { bytesOf(t) : t \in texts }
      self(kt, k) == (CHOOSE c \in { kt[pw] : pw \in pws } : c.key = k).ctx
      encrypted(kt, from) ==
        [k \in { kt[pw].key : pw \in pws } |->
           Only({ [x \in from \X AppRandom |-> encrypt(c, x[1], x[2])] @@ << >> :
                    c \in { self(kt, k) } })] @@ << >>
      decrypted(kt, from) ==
        [k \in { kt[pw].key : pw \in pws } |->
           Only({ [w \in from |-> decrypt(c, w)] @@ << >> : c \in { self(kt, k) } })] @@ << >>
      rets(e, from) ==
        UNION { { e[k][x].ret : x \in { y \in DOMAIN e[k] : y[1] \in from } } : k \in DOMAIN e }
  IN Only({ Only({ Only({ [setKey |-> kt,
                           cipher |-> [k \in DOMAIN e |->
                                         [encrypt |-> e[k], decrypt |-> d[k]]] @@ << >>,
                           hex |-> { bytesToHex(c) :
                                       c \in rets(e, { bytesOf(t) : t \in texts }) \ { << >> } }] :
                            d \in { decrypted(kt, first \cup rets(e, first)
                                                   \cup { << >>, hexToBytes(<< "z", "z" >>) }) } }) :
                     e \in { encrypted(kt, first) } }) :
              kt \in { KeyTable(pws) } })

\* the locals of run when it is at the menu
AtMenu ==
  [pc |-> "menu", choice |-> 0, inputFile |-> << >>, outputFile |-> << >>,
   text |-> << >>, pw |-> << >>, numFiles |-> 0, files |-> << >>, i |-> 0, ok |-> 0]

\* the state before run is called: the cipher without key, nothing typed, the
\* file f (empty, or of 15 bytes) and the file ro that cannot be written; the
\* texts typed at "Enter text to encrypt" are "" and "hi"
AppInit ==
  /\ tab = AppTables(Passwords, { p \in Plains : Len(p) < 16 }, { << >>, << "h", "i" >> })
  /\ key = << >>
  /\ ctx = [Nr |-> 0, roundKey |-> << >>]
  /\ call = "none"
  /\ arg = << >>
  /\ ret = << >>
  /\ ok = FALSE
  /\ blocks = 0
  /\ iv = << >>
  /\ sent = NoRecord
  /\ twin = NoRecord
  /\ wire = << >>
  /\ loc = << >>
  /\ run = AtMenu
  /\ cin = [buf |-> << >>, eof |-> FALSE]
  /\ \E p \in { q \in Plains : Len(q) < 16 } :
       fs = [n \in { << "f" >>, << "r", "o" >> } |->
               IF n = << "f" >> THEN p
               ELSE << 16, 16, 16, 16, 16, 16, 16, 16, 16, 16, 16, 16, 16, 16, 16 >>]
  /\ out = [said |-> << >>, setKey |-> << >>, calls |-> << >>]

\* the program is blocked in a read: nothing is typed yet and input has not
\* ended ("cin >> n" also reads on when all that is typed is white space)
Waits ==
  /\ ~ cin.eof
  /\ \/ /\ run.pc \in { "inputFile", "outputFile", "text", "hex", "password", "files", "pause" }
        /\ cin.buf = << >>
     \/ /\ run.pc \in { "menu", "numFiles" }
        /\ skipws(cin.buf) = << >>

\* the user types a line and Enter; a waiting "cin >> n" has consumed the
\* white space typed so far and consumes the white space that comes
Feed(line) ==
  /\ Waits
  /\ cin' = [cin EXCEPT !.buf = IF run.pc \in { "menu", "numFiles" }
                                  THEN skipws(line \o << "\n" >>)
                                  ELSE cin.buf \o line \o << "\n" >>]
  /\ UNCHANGED << tab, key, ctx, call, arg, ret, ok, blocks, iv, sent, twin, wire, loc, run,
                  fs, out >>

\* standard input ends
EndInput ==
  /\ Waits
  /\ cin' = [cin EXCEPT !.eof = TRUE]
  /\ UNCHANGED << tab, key, ctx, call, arg, ret, ok, blocks, iv, sent, twin, wire, loc, run,
                  fs, out >>

\* a faulty run: the test "if (choice == 11)" is missing, 11 goes to the
\* default case of the switch
ReadChoiceNoExit ==
  /\ run.pc = "menu"
  /\ ~ Waits
  /\ \E r \in { readInt(cin) } :
       /\ cin' = r.cin
       /\ run' = [AtMenu EXCEPT
                    !.choice = r.value,
                    !.pc = IF ~ r.good THEN "pause"
                           ELSE IF r.value = 11 THEN "pause"
                           ELSE IF r.value \in { 1, 2, 7, 8, 9 } THEN "inputFile"
                           ELSE IF r.value = 3 THEN "text"
                           ELSE IF r.value = 4 THEN "hex"
                           ELSE IF r.value \in { 5, 6 } THEN "numFiles"
                           ELSE "pause"]
       /\ out' = [setKey |-> << >>, calls |-> << >>,
                  said |-> IF ~ r.good THEN << << "Invalid input" >> >>
                           ELSE IF r.value = 11 THEN << << "Invalid choice" >> >>
                           ELSE IF r.value = 10 THEN << << "About" >> >>
                           ELSE IF r.value \in 1..9 THEN << >>
                           ELSE << << "Invalid choice" >> >>]
  /\ call' = "menu"
  /\ arg' = << >>
  /\ ret' = << >>
  /\ ok' = FALSE
  /\ iv' = << >>
  /\ UNCHANGED << tab, key, ctx, blocks, sent, twin, wire, loc, fs >>

\* run: clearScreen, displayMenu, "cin >> choice" and the switch up to the
\* first read of the case
ReadChoice ==
  /\ run.pc = "menu"
  /\ ~ Waits
  /\ \E r \in { readInt(cin) } :
       /\ cin' = r.cin
       /\ run' = [AtMenu EXCEPT
                    !.choice = r.value,
                    !.pc = IF ~ r.good THEN "pause"
                           ELSE IF r.value = 11 THEN "return"
                           ELSE IF r.value \in { 1, 2, 7, 8, 9 } THEN "inputFile"
                           ELSE IF r.value = 3 THEN "text"
                           ELSE IF r.value = 4 THEN "hex"
                           ELSE IF r.value \in { 5, 6 } THEN "numFiles"
                           ELSE "pause"]
       /\ out' = [setKey |-> << >>, calls |-> << >>,
                  said |-> IF ~ r.good THEN << << "Invalid input" >> >>
                           ELSE IF r.value = 11 THEN << << "Goodbye" >> >>
                           ELSE IF r.value = 10 THEN << << "About" >> >>
                           ELSE IF r.value \in 1..9 THEN << >>
                           ELSE << << "Invalid choice" >> >>]
  /\ call' = "menu"
  /\ arg' = << >>
  /\ ret' = << >>
  /\ ok' = FALSE
  /\ iv' = << >>
  /\ UNCHANGED << tab, key, ctx, blocks, sent, twin, wire, loc, fs >>

\* getline(cin, inputFile), getline(cin, outputFile) with the default name,
\* getline(cin, text) and getline(cin, files[i]); cases 7, 8 and 9 show the
\* file, its statistics or its hash
GetLine ==
  /\ run.pc \in { "inputFile", "outputFile", "text", "hex", "files" }
  /\ ~ Waits
  /\ \E g \in { getline(cin) } :
       /\ cin' = g.cin
       /\ CASE run.pc = "inputFile" ->
                 /\ run' = [run EXCEPT !.inputFile = g.str,
                                       !.pc = IF run.choice \in { 1, 2 } THEN "outputFile"
                                              ELSE "pause"]
                 /\ out' = [out EXCEPT
                              !.said = IF run.choice \in { 1, 2 } THEN @
                                       ELSE Append(@, << IF g.str \in DOMAIN fs THEN "Shown"
                                                         ELSE "Cannot open", g.str >>)]
            [] run.pc = "outputFile" ->
                 LET auto == IF run.choice = 1 THEN addEncExtension(run.inputFile)
                             ELSE IF hasEncExtension(run.inputFile)
                               THEN removeEncExtension(run.inputFile)
                               ELSE << "d", "e", "c", "r", "y", "p", "t", "e", "d", ".", "t", "x", "t" >>
                 IN /\ run' = [run EXCEPT !.outputFile = IF g.str = << >> THEN auto ELSE g.str,
                                          !.pc = "password"]
                    /\ out' = [out EXCEPT !.said = IF g.str = << >>
                                                     THEN Append(@, << "Output", auto >>)
                                                     ELSE @]
            [] run.pc \in { "text", "hex" } ->
                 /\ run' = [run EXCEPT !.text = g.str, !.pc = "password"]
                 /\ out' = out
            [] run.pc = "files" ->
                 /\ run' = [run EXCEPT !.files = Append(@, g.str),
                                       !.pc = IF Len(run.files) + 1 = run.numFiles
                                                THEN "batch" ELSE "files"]
                 /\ out' = [out EXCEPT !.said = IF Len(run.files) + 1 = run.numFiles
                                                  THEN Append(@, << "Processing" >>) ELSE @]
  /\ UNCHANGED << tab, key, ctx, call, arg, ret, ok, blocks, iv, sent, twin, wire, loc, fs >>

\* batchEncrypt / batchDecrypt: "cin >> numFiles"
BatchCount ==
  /\ run.pc = "numFiles"
  /\ ~ Waits
  /\ \E r \in { readInt(cin) } :
       /\ cin' = r.cin
       /\ IF ~ r.good \/ r.value < 1
            THEN /\ run' = [run EXCEPT !.pc = "pause"]
                 /\ out' = [out EXCEPT !.said = Append(@, << "Invalid number" >>)]
            ELSE /\ run' = [run EXCEPT !.numFiles = r.value, !.pc = "password"]
                 /\ out' = out
  /\ UNCHANGED << tab, key, ctx, call, arg, ret, ok, blocks, iv, sent, twin, wire, loc, fs >>

\* getPassword and the test "if (pw.empty())" of its caller: break in the
\* cases 1 to 4 (run is back at the menu), return in a batch (the pause follows)
GetPassword ==
  /\ run.pc = "password"
  /\ ~ Waits
  /\ \E g \in { getline(cin) } :
       /\ cin' = g.cin
       /\ IF g.str = << >>
            THEN /\ run' = IF run.choice \in { 5, 6 } THEN [run EXCEPT !.pc = "pause"]
                           ELSE AtMenu
                 /\ out' = IF run.choice \in { 5, 6 }
                             THEN [out EXCEPT !.said = Append(@, << "Password cannot be empty" >>)]
                             ELSE [said |-> << >>, setKey |-> << >>, calls |-> << >>]
            ELSE /\ run' = [run EXCEPT !.pw = g.str, !.pc = "setKey"]
                 /\ out' = [out EXCEPT !.said = Append(@, << "Password strength" >>)]
  /\ UNCHANGED << tab, key, ctx, call, arg, ret, ok, blocks, iv, sent, twin, wire, loc, fs >>

\* a faulty run: the line "cipher.setKey(pw)" is missing, the cipher keeps
\* the key it had
SetKeyStepForgotten ==
  /\ run.pc = "setKey"
  /\ run' = [run EXCEPT !.pc = IF run.choice \in { 5, 6 } THEN "files" ELSE "cipher"]
  /\ UNCHANGED << tab, key, ctx, call, arg, ret, ok, blocks, iv, sent, twin, wire, loc, cin,
                  fs, out >>

\* cipher.setKey(pw)
SetKeyStep ==
  /\ run.pc = "setKey"
  /\ \E password \in { bytesOf(run.pw) } :
       /\ key' = tab.setKey[password].key
       /\ ctx' = tab.setKey[password].ctx
       /\ arg' = password
       /\ out' = [out EXCEPT !.setKey = Append(@, password)]
  /\ call' = "setKey"
  /\ run' = [run EXCEPT !.pc = IF run.choice \in { 5, 6 } THEN "files" ELSE "cipher"]
  /\ UNCHANGED << tab, ret, ok, blocks, iv, sent, twin, wire, loc, cin, fs >>

\* the call of the cipher in the cases 1 to 4 and what the case prints
CipherCall ==
  /\ run.pc = "cipher"
  /\ \E rnd \in AppRandom :
       LET cipher == tab.cipher[key]
       IN CASE run.choice = 1 ->
                 \E r \in { encryptFile(cipher, rnd, fs, run.inputFile, run.outputFile) } :
                   /\ call' = "encryptFile"
                   /\ arg' = r.data
                   /\ ret' = r.enc
                   /\ ok' = r.ret
                   /\ iv' = IF r.why = "open" \/ ~ rnd.good THEN << >> ELSE rnd.buf
                   /\ fs' = r.fs
                   /\ wire' = wire
                   /\ out' = [out EXCEPT
                                !.calls = Append(@, [fn |-> "encryptFile", from |-> run.inputFile,
                                                     to |-> run.outputFile, ret |-> r.ret]),
                                !.said = Append(@, IF r.ret THEN << "File encrypted" >>
                                                   ELSE << "Error", r.why >>)]
            [] run.choice = 2 ->
                 \E r \in { decryptFile(cipher, fs, run.inputFile, run.outputFile) } :
                   /\ call' = "decryptFile"
                   /\ arg' = r.data
                   /\ ret' = r.dec
                   /\ ok' = r.ret
                   /\ iv' = << >>
                   /\ fs' = r.fs
                   /\ wire' = wire
                   /\ out' = [out EXCEPT
                                !.calls = Append(@, [fn |-> "decryptFile", from |-> run.inputFile,
                                                     to |-> run.outputFile, ret |-> r.ret]),
                                !.said = Append(@, IF r.ret THEN << "File decrypted" >>
                                                   ELSE << "Error", r.why >>)]
            [] run.choice = 3 ->
                 \E data \in { bytesOf(run.text) } :
                   \E enc \in { cipher.encrypt[data, rnd] } :
                     \E hex \in { bytesToHex(enc.ret) } :
                       /\ call' = "encryptText"
                       /\ arg' = data
                       /\ ret' = enc.ret
                       /\ ok' = enc.ok
                       /\ iv' = IF rnd.good THEN rnd.buf ELSE << >>
                       /\ fs' = fs
                       /\ wire' = wire
                       /\ out' = [out EXCEPT
                                    !.calls = Append(@, [fn |-> "encryptText", from |-> run.text,
                                                         to |-> hex, ret |-> enc.ok]),
                                    !.said = Append(@, << "Encrypted (hex)", hex >>)]
            [] run.choice = 4 ->
                 \E data \in { hexToBytes(run.text) } :
                   \E dec \in { IF data \in DOMAIN cipher.decrypt THEN cipher.decrypt[data]
                                ELSE decrypt(ctx, data) } :
                     /\ call' = "decryptText"
                     /\ arg' = data
                     /\ ret' = dec.ret
                     /\ ok' = dec.ok
                     /\ iv' = << >>
                     /\ fs' = fs
                     /\ wire' = wire
                     /\ out' = [out EXCEPT
                                  !.calls = Append(@, [fn |-> "decryptText", from |-> run.text,
                                                       to |-> dec.ret, ret |-> dec.ok]),
                                  !.said = Append(@, IF dec.ret = << >>
                                                       THEN << "Decryption failed" >>
                                                       ELSE << "Decrypted", dec.ret >>)]
  /\ run' = [run EXCEPT !.pc = "pause"]
  /\ UNCHANGED << tab, key, ctx, blocks, sent, twin, loc, cin >>

\* a faulty batch: ok is counted up for every file that exists, whatever its
\* operation returned
BatchStepCountsAttempts ==
  /\ run.pc = "batch"
  /\ IF run.i < Len(run.files)
       THEN \E rnd \in AppRandom :
              LET f == run.files[run.i + 1]
                  outF == IF run.choice = 5 THEN addEncExtension(f)
                          ELSE IF hasEncExtension(f) THEN removeEncExtension(f)
                          ELSE << "d", "e", "c", "r", "y", "p", "t", "e", "d", "_" >> \o f
                  exists == f \in DOMAIN fs
                  r == IF run.choice = 5
                         THEN encryptFile(tab.cipher[key], rnd, fs, f, outF)
                         ELSE decryptFile(tab.cipher[key], fs, f, outF)
              IN IF exists
                   THEN /\ fs' = r.fs
                        /\ ok' = r.ret
                        /\ call' = IF run.choice = 5 THEN "encryptFile" ELSE "decryptFile"
                        /\ arg' = r.data
                        /\ ret' = IF run.choice = 5 THEN r.enc ELSE r.dec
                        /\ iv' = IF run.choice = 5 /\ rnd.good THEN rnd.buf ELSE << >>
                        /\ run' = [run EXCEPT !.i = @ + 1, !.ok = @ + 1]
                        /\ out' = [out EXCEPT
                                     !.calls = Append(@, [fn |-> call', from |-> f, to |-> outF,
                                                          ret |-> r.ret]),
                                     !.said = Append(@, IF r.ret THEN << "Done", f, outF >>
                                                        ELSE << "Error", r.why >>)]
                   ELSE /\ run' = [run EXCEPT !.i = @ + 1]
                        /\ out' = [out EXCEPT !.said = Append(@, << "not found", f >>)]
                        /\ UNCHANGED << fs, ok, call, arg, ret, iv >>
       ELSE /\ run' = [run EXCEPT !.pc = "pause"]
            /\ out' = [out EXCEPT !.said = Append(@, << "Done!", run.ok, run.numFiles >>)]
            /\ UNCHANGED << fs, ok, call, arg, ret, iv >>
  /\ UNCHANGED << tab, key, ctx, blocks, sent, twin, wire, loc, cin >>

\* one turn of "for (const auto& f : files)" of batchEncrypt / batchDecrypt,
\* or, after the last file, the line "Done! ok/numFiles"
BatchStep ==
  /\ run.pc = "batch"
  /\ IF run.i < Len(run.files)
       THEN \E rnd \in AppRandom :
              LET f == run.files[run.i + 1]
                  outF == IF run.choice = 5 THEN addEncExtension(f)
                          ELSE IF hasEncExtension(f) THEN removeEncExtension(f)
                          ELSE << "d", "e", "c", "r", "y", "p", "t", "e", "d", "_" >> \o f
                  exists == f \in DOMAIN fs
                  r == IF run.choice = 5
                         THEN encryptFile(tab.cipher[key], rnd, fs, f, outF)
                         ELSE decryptFile(tab.cipher[key], fs, f, outF)
              IN IF exists
                   THEN /\ fs' = r.fs
                        /\ ok' = r.ret
                        /\ call' = IF run.choice = 5 THEN "encryptFile" ELSE "decryptFile"
                        /\ arg' = r.data
                        /\ ret' = IF run.choice = 5 THEN r.enc ELSE r.dec
                        /\ iv' = IF run.choice = 5 /\ rnd.good THEN rnd.buf ELSE << >>
                        /\ run' = [run EXCEPT !.i = @ + 1, !.ok = IF r.ret THEN @ + 1 ELSE @]
                        /\ out' = [out EXCEPT
                                     !.calls = Append(@, [fn |-> call', from |-> f, to |-> outF,
                                                          ret |-> r.ret]),
                                     !.said = Append(@, IF r.ret THEN << "Done", f, outF >>
                                                        ELSE << "Error", r.why >>)]
                   ELSE /\ run' = [run EXCEPT !.i = @ + 1]
                        /\ out' = [out EXCEPT !.said = Append(@, << "not found", f >>)]
                        /\ UNCHANGED << fs, ok, call, arg, ret, iv >>
       ELSE /\ run' = [run EXCEPT !.pc = "pause"]
            /\ out' = [out EXCEPT !.said = Append(@, << "Done!", run.ok, run.numFiles >>)]
            /\ UNCHANGED << fs, ok, call, arg, ret, iv >>
  /\ UNCHANGED << tab, key, ctx, blocks, sent, twin, wire, loc, cin >>

\* "Press Enter to continue...": cin.get() reads one character; run loops
Pause ==
  /\ run.pc = "pause"
  /\ ~ Waits
  /\ cin' = [cin EXCEPT !.buf = IF @ = << >> THEN @ ELSE Tail(@)]
  /\ run' = AtMenu
  /\ out' = [said |-> << >>, setKey |-> << >>, calls |-> << >>]
  /\ call' = "menu"
  /\ arg' = << >>
  /\ ret' = << >>
  /\ ok' = FALSE
  /\ iv' = << >>
  /\ UNCHANGED << tab, key, ctx, blocks, sent, twin, wire, loc, fs >>

AppNext ==
  \/ \E line \in LinesAt(run, tab.hex) : Feed(line)
  \/ EndInput
  \/ ReadChoice
  \/ GetLine
  \/ BatchCount
  \/ GetPassword
  \/ SetKeyStep
  \/ CipherCall
  \/ BatchStep
  \/ Pause

SpecApp == AppInit /\ [][AppNext]_vars

\* the menu loop with its scheduling: the process takes its next step
\* whenever it has one, and standard input, when the process waits for it,
\* delivers a line or ends
SpecAppLive == SpecApp /\ WF_vars(AppNext)

(***************************************************************************)
(* The claims C1 .. C10.  C1 - C4 and C8 - C10 are about Spec, C5 - C7     *)
(* about SpecPad.                                                          *)
(***************************************************************************)
\* C1: after setKey(K), when the random source succeeded, decrypt applied to
\* the output of encrypt(P) under the same key returns exactly P, from its
\* last line; P may be empty.
C1_RoundTrip ==
  \A e \in { sent, twin } :
    (call = "decrypt" /\ e # NoRecord /\ key = e.key /\ arg = e.cipher)
      => (ok /\ ret = e.plain)

C1_Witness ==
  /\ call = "decrypt"
  /\ sent # NoRecord
  /\ key = sent.key
  /\ arg = sent.cipher
  /\ sent.plain = << >>
  /\ ok
  /\ ret = sent.plain

C3_SentinelUnambiguous ==
  call \in { "encrypt", "decrypt" } => (ret = << >> <=> ~ ok)

\* C4: decrypt rejects every input of length below 32 or with length - 16 not
\* a multiple of 16 (0, 16, 31 and 33 among them) with the empty result and
\* before any block is decrypted; every other input has all its blocks decrypted.
C4_LengthCheck ==
  call = "decrypt" =>
    IF Len(arg) < 32 \/ (Len(arg) - 16) % 16 # 0
      THEN ret = << >> /\ ~ ok /\ blocks = 0
      ELSE blocks >= 1 /\ blocks = (Len(arg) - 16) \div 16

C4_Witness ==
  /\ call = "decrypt"
  /\ Len(arg) = 33
  /\ ret = << >>
  /\ blocks = 0

\* C5: pkcs7Unpad(data) returns true iff data is not empty, its length is a
\* multiple of 16, its last byte p is in 1..16 and its last p bytes all equal
\* p; it then leaves data without those p bytes.
C5_UnpadIff ==
  call = "pkcs7Unpad" =>
    LET n == Len(wire)
        valid == /\ n > 0
                 /\ n % 16 = 0
                 /\ wire[n] >= 1
                 /\ wire[n] <= 16
                 /\ \A i \in (n - wire[n] + 1)..n : wire[i] = wire[n]
    IN /\ ok <=> valid
       /\ ok => ret = SubSeq(wire, 1, n - wire[n])

\* a last byte in 1..16 whose p last bytes are not all p
C5_Witness ==
  /\ call = "pkcs7Unpad"
  /\ Len(wire) = 16
  /\ wire[16] = 2
  /\ wire[15] # 2
  /\ ~ ok

\* C6: pkcs7Unpad(pkcs7Pad(data)) returns true and leaves exactly data, for
\* every data of length 0 .. MaxDataLen.
C6_PadUnpad ==
  (call = "pkcs7Unpad" /\ wire = pkcs7Pad(arg)) => (ok /\ ret = arg)

C6_Witness ==
  /\ call = "pkcs7Unpad"
  /\ Len(arg) = 992
  /\ Len(wire) = 1008
  /\ ok
  /\ ret = arg

\* C7: pkcs7Pad(data) is data followed by padLength = 16 - (|data| mod 16)
\* bytes of value padLength; padLength is in 1..16 (16 when |data| is a
\* multiple of 16) and the length of the result is a positive multiple of 16.
C7_PadLayout ==
  call = "pkcs7Pad" =>
    LET padLength == 16 - (Len(arg) % 16)
    IN /\ padLength \in 1..16
       /\ Len(arg) % 16 = 0 => padLength = 16
       /\ Len(ret) = Len(arg) + padLength
       /\ SubSeq(ret, 1, Len(arg)) = arg
       /\ \A i \in (Len(arg) + 1)..Len(ret) : ret[i] = padLength
       /\ Len(ret) > 0
       /\ Len(ret) % 16 = 0

C7_Witness ==
  /\ call = "pkcs7Pad"
  /\ Len(arg) = 16
  /\ Len(ret) = 32
  /\ ret[32] = 16

\* C8: a successful encrypt(P) returns the IV it drew followed by
\* N = floor(|P| / 16) + 1 blocks of 16 bytes: 16 + 16 * N bytes, at least 32,
\* a length decrypt's length test accepts.
C8_CipherLayout ==
  (call = "encrypt" /\ ok) =>
    LET N == (Len(arg) \div 16) + 1
    IN /\ N >= 1
       /\ blocks = N
       /\ Len(ret) = 16 + 16 * N
       /\ Len(ret) >= 32
       /\ (Len(ret) - 16) % 16 = 0
       /\ SubSeq(ret, 1, 16) = iv

C8_Witness ==
  /\ call = "encrypt"
  /\ ok
  /\ Len(arg) = 16
  /\ Len(ret) = 48
  /\ blocks = 2

\* C9: when generateRandomBytes returns false, encrypt returns the empty
\* vector from its "return {}", having encrypted no block.
C9_RandomFailure ==
  (call = "encrypt" /\ iv = << >>) => (ret = << >> /\ ~ ok /\ blocks = 0)

C9_Witness ==
  /\ call = "encrypt"
  /\ iv = << >>
  /\ arg # << >>
  /\ ret = << >>
  /\ sent # NoRecord

\* C10: two encryptions of the same plaintext under the same key give
\* different ciphertexts when their IVs differ and the same ciphertext when
\* their IVs are equal, and each decrypts under that key to the plaintext.
C10_FreshCiphertext ==
  twin # NoRecord =>
    /\ twin.key = sent.key
    /\ twin.plain = sent.plain
    /\ twin.iv # sent.iv => twin.cipher # sent.cipher
    /\ twin.iv = sent.iv => twin.cipher = sent.cipher
    /\ (call = "decrypt" /\ key = sent.key /\ arg \in { sent.cipher, twin.cipher })
         => (ok /\ ret = sent.plain)

C10_Witness ==
  /\ twin # NoRecord
  /\ twin.iv # sent.iv
  /\ twin.cipher # sent.cipher
  /\ call = "decrypt"
  /\ key = sent.key
  /\ arg = twin.cipher
  /\ Len(sent.plain) = 16
  /\ ret = sent.plain

(***************************************************************************)
(* The claims C11 .. C20.  C11, C16, C19 and C20 are about Spec, the       *)
(* others about SpecUnit.                                                  *)
(***************************************************************************)
\* C11: every call of encrypt uses the 16 bytes the random source gives in
\* that call: they are the first 16 bytes of its output, the call leaves the
\* members of the cipher (key and ctx, there is no other) as they were, and
\* when the bytes drawn differ from the IV of the encryption before, so does
\* the IV in the output.
C11_FreshIV ==
  [][ call' = "encrypt" =>
        /\ key' = key
        /\ ctx' = ctx
        /\ ok' => (SubSeq(ret', 1, 16) = iv' /\ sent'.iv = iv')
        /\ (ok' /\ sent # NoRecord /\ iv' # sent.iv) => SubSeq(ret', 1, 16) # sent.iv
    ]_vars

\* the second encryption of the same plaintext under one setKey, another IV
C11_Witness ==
  /\ call = "encrypt"
  /\ ok
  /\ twin # NoRecord
  /\ twin.iv # sent.iv
  /\ SubSeq(twin.cipher, 1, 16) = twin.iv
  /\ SubSeq(ret, 1, 16) = sent.iv
  /\ iv = sent.iv

\* C16: when a menu action has completed and run waits for the next choice,
\* the cipher holds no key and no round-key schedule.
C16_KeyDiscarded ==
  call = "menu" => (key = << >> /\ ctx = [Nr |-> 0, roundKey |-> << >>])

\* C12: hashFile of the empty file prints e3b0c442...7852b855 and of the
\* 3-byte file "abc" ba7816bf...f20015ad: toHex(hash(m)), 64 characters.
C12_Sha256KnownAnswers ==
  call = "hashFile" =>
    /\ Len(ret) = 32
    /\ Len(wire) = 64
    /\ arg = << >> =>
         wire = << "e", "3", "b", "0", "c", "4", "4", "2", "9", "8", "f", "c", "1",
                   "c", "1", "4", "9", "a", "f", "b", "f", "4", "c", "8", "9", "9",
                   "6", "f", "b", "9", "2", "4", "2", "7", "a", "e", "4", "1", "e",
                   "4", "6", "4", "9", "b", "9", "3", "4", "c", "a", "4", "9", "5",
                   "9", "9", "1", "b", "7", "8", "5", "2", "b", "8", "5", "5" >>
    /\ arg = << 97, 98, 99 >> =>
         wire = << "b", "a", "7", "8", "1", "6", "b", "f", "8", "f", "0", "1", "c",
                   "f", "e", "a", "4", "1", "4", "1", "4", "0", "d", "e", "5", "d",
                   "a", "e", "2", "2", "2", "3", "b", "0", "0", "3", "6", "1", "a",
                   "3", "9", "6", "1", "7", "7", "a", "9", "c", "b", "4", "1", "0",
                   "f", "f", "6", "1", "f", "2", "0", "0", "1", "5", "a", "d" >>

C12_Witness ==
  /\ call = "hashFile"
  /\ arg = << 97, 98, 99 >>
  /\ Len(wire) = 64
  /\ SubSeq(wire, 1, 8) = << "b", "a", "7", "8", "1", "6", "b", "f" >>
  /\ SubSeq(ret, 1, 4) = << 186, 120, 22, 191 >>

\* C13, as the standard has it: under the key 00 01 .. 1f of FIPS 197 C.3,
\* encryptBlock of the plaintext of C.3, 00 11 22 .. ff, gives the ciphertext
\* printed there, 8ea2b7ca516745bfeafc49904b496089, and decryptBlock of that
\* gives the plaintext back.  The all-zero block gives
\* f29000b62a499fd0a9f39a6add2e7780 under that key, a block the standard does
\* not print, and decryptBlock of it gives the all-zero block back.
C13_Aes256KnownAnswer ==
  (call \in { "encryptBlock", "decryptBlock" } /\ key = FipsKey) =>
    LET published == << 142, 162, 183, 202, 81, 103, 69, 191,
                        234, 252, 73, 144, 75, 73, 96, 137 >>
        ofZero == << 242, 144, 0, 182, 42, 73, 159, 208,
                     169, 243, 154, 106, 221, 46, 119, 128 >>
    IN /\ (call = "encryptBlock" /\ arg = FipsBlock) => ret = published
       /\ (call = "decryptBlock" /\ arg = published) => ret = FipsBlock
       /\ (call = "encryptBlock" /\ arg = ZeroBlock) => ret = ofZero
       /\ (call = "decryptBlock" /\ arg = ofZero) => ret = ZeroBlock

C13_Witness ==
  /\ call = "decryptBlock"
  /\ key = FipsKey
  /\ blocks = 2
  /\ arg = << 142, 162, 183, 202, 81, 103, 69, 191, 234, 252, 73, 144, 75, 73, 96, 137 >>
  /\ ret = FipsBlock

\* C13 as the claim words it: under the key of FIPS 197, encryptBlock of the
\* all-zero block gives the ciphertext block the standard prints.
C13_ZeroBlockGivesPublished ==
  (call = "encryptBlock" /\ key = FipsKey /\ arg = ZeroBlock) =>
    ret = << 142, 162, 183, 202, 81, 103, 69, 191, 234, 252, 73, 144, 75, 73, 96, 137 >>

\* C14: under every schedule, decryptBlock of what encryptBlock returned is
\* the block encrypted, and encryptBlock of what decryptBlock returned is the
\* block decrypted.
C14_BlockPermutation ==
  [][ /\ (call = "encryptBlock" /\ call' = "decryptBlock" /\ arg' = ret) => ret' = arg
      /\ (call = "decryptBlock" /\ call' = "encryptBlock" /\ arg' = ret) => ret' = arg
    ]_vars

\* back at a block of Blocks after decryptBlock, encryptBlock under a password's key
C14_Witness ==
  /\ call = "encryptBlock"
  /\ blocks = 2
  /\ key = tab.setKey[<< 112, 119 >>].key
  /\ ret = FipsBlock
  /\ arg # FipsBlock

\* C15: after setKey(password) the key is the 32 bytes of
\* SHA256Impl::hash(password), one hash of the password bytes alone, and the
\* schedule is keyExpansion of that key: 15 round keys, the first two the key.
C15_KeyIsDigest ==
  call = "setKey" =>
    /\ key = hash(arg)
    /\ Len(key) = 32
    /\ ctx = keyExpansion(key)
    /\ ctx.Nr = 14
    /\ Len(ctx.roundKey) = 240
    /\ SubSeq(ctx.roundKey, 1, 32) = key
    /\ arg = << 112, 119 >> =>
         key = << 48, 201, 82, 250, 177, 34, 195, 249, 117, 159, 2, 166, 217, 92,
                  55, 88, 178, 70, 180, 254, 226, 57, 149, 123, 45, 79, 238, 70, 226,
                  97, 112, 196 >>

C15_Witness ==
  /\ call = "setKey"
  /\ arg = << 112, 119 >>
  /\ SubSeq(key, 1, 4) = << 48, 201, 82, 250 >>
  /\ Len(ctx.roundKey) = 240

C18_HexRoundTrip ==
  LET bytes == IF call = "encryptText" THEN ret ELSE arg
      encodes(text, data) ==
        /\ Len(text) = 2 * Len(data)
        /\ \A k \in 1..Len(data) :
             /\ \E hi, lo \in 0..15 :
                  /\ text[2 * k - 1] = HexLower[hi + 1]
                  /\ text[2 * k] = HexLower[lo + 1]
                  /\ data[k] = 16 * hi + lo
  IN /\ call \in { "bytesToHex", "encryptText" } => encodes(wire, bytes)
     /\ (call = "encryptText" /\ ok) => (Len(wire) = 2 * (16 + 16 * ((Len(arg) \div 16) + 1))
                                          /\ SubSeq(ret, 1, 16) = iv)
     /\ (call = "hexToBytes" /\ encodes(wire, arg)) => ret = arg
     /\ call = "decryptText" => encodes(wire, arg)

C18_Witness ==
  /\ call = "hexToBytes"
  /\ arg = << 0, 171 >>
  /\ wire = << "0", "0", "a", "b" >>
  /\ ret = arg

\* C19: with C_0 the IV drawn and P_1 .. P_N the 16-byte blocks of
\* pkcs7Pad(plaintext), a successful encrypt returns C_0, C_1, .. , C_N in
\* that order, where C_i = encryptBlock(P_i xor C_(i-1)) for every i in 1..N.
C19_CbcEncryptChain ==
  (call = "encrypt" /\ ok) =>
    \A padded \in { pkcs7Pad(arg) } :
      LET N == Len(padded) \div 16
          P(i) == SubSeq(padded, 16 * i - 15, 16 * i)
          C(i) == SubSeq(ret, 16 * i + 1, 16 * i + 16)
      IN /\ Len(padded) = 16 * N
         /\ Len(ret) = 16 * (N + 1)
         /\ blocks = N
         /\ C(0) = iv
         /\ \A i \in 1..N :
              \A p \in { P(i) }, c \in { C(i - 1) } :
                C(i) = encryptBlock(ctx, [j \in 1..16 |-> Xor8(p[j], c[j])])

\* two blocks: the second is chained to the first, not to the IV
C19_Witness ==
  /\ call = "encrypt"
  /\ ok
  /\ Len(arg) = 16
  /\ blocks = 2
  /\ Len(ret) = 48
  /\ SubSeq(ret, 1, 16) = iv
  /\ SubSeq(ret, 17, 32) # SubSeq(ret, 33, 48)

\* C20: with C_0 the first 16 bytes given to decrypt and C_1 .. C_N the blocks
\* after them, decrypt recovers R_i = decryptBlock(C_i) xor C_(i-1) for every
\* i in 1..N, C_(i-1) being the block as received, and then calls pkcs7Unpad
\* once, on R_1 .. R_N: it returns what pkcs7Unpad leaves, or the empty
\* vector when pkcs7Unpad returns false.
C20_CbcDecryptChain ==
  (call = "decrypt" /\ Len(arg) >= 32 /\ (Len(arg) - 16) % 16 = 0) =>
    LET N == (Len(arg) - 16) \div 16
        C(i) == SubSeq(arg, 16 * i + 1, 16 * i + 16)
        R(i) == Only({ [j \in 1..16 |-> Xor8(d[j], c[j])] @@ << >> :
                         d \in { decryptBlock(ctx, C(i)) }, c \in { C(i - 1) } })
    IN /\ blocks = N
       /\ \A rec \in { [i \in 1..N |-> R(i)] @@ << >> } :
            \A unpadded \in { pkcs7Unpad([j \in 1..(16 * N) |->
                                            rec[((j - 1) \div 16) + 1][((j - 1) % 16) + 1]]
                                           @@ << >>) } :
              /\ ok <=> unpadded.ok
              /\ ok => ret = unpadded.data
              /\ ~ ok => ret = << >>

\* two blocks received, the last byte of the first changed on the way: both
\* are recovered, the last byte of the second is 1 and one byte is taken off
C20_Witness ==
  /\ call = "decrypt"
  /\ Len(arg) = 48
  /\ sent # NoRecord
  /\ key = sent.key
  /\ Len(sent.cipher) = 48
  /\ SubSeq(arg, 1, 16) = SubSeq(sent.cipher, 1, 16)
  /\ SubSeq(arg, 17, 32) # SubSeq(sent.cipher, 17, 32)
  /\ SubSeq(arg, 33, 48) = SubSeq(sent.cipher, 33, 48)
  /\ blocks = 2
  /\ ok
  /\ Len(ret) = 31
  /\ SubSeq(ret, 1, 16) # sent.plain

(***************************************************************************)
(* The key schedule, the padding of SHA-256 and the round transforms       *)
(* statement by statement; the files and the menu loop.                    *)
(***************************************************************************)

\* word n of the schedule rk (roundKey[4n .. 4n+3])
ScheduleWord(rk, n) == << rk[4 * n + 1], rk[4 * n + 2], rk[4 * n + 3], rk[4 * n + 4] >>

\* FIPS 197, 5.2: w[i] = w[i-8] xor f(w[i-1]) with f = SubWord(RotWord) xor Rcon[i/8]
\* when i is a multiple of 8, f = SubWord when i mod 8 = 4, f the identity otherwise
ExpectedWord(rk, i) ==
  LET p == ScheduleWord(rk, i - 1)
      q == ScheduleWord(rk, i - 8)
      f == IF i % 8 = 0
             THEN << Xor8(sbox[p[2] + 1], rcon[(i \div 8) + 1]), sbox[p[3] + 1],
                     sbox[p[4] + 1], sbox[p[1] + 1] >>
             ELSE IF i % 8 = 4
               THEN << sbox[p[1] + 1], sbox[p[2] + 1], sbox[p[3] + 1], sbox[p[4] + 1] >>
               ELSE p
  IN [j \in 1..4 |-> Xor8(q[j], f[j])]

\* C21: keyExpansion copies the 32 key bytes to words 0..7; then for i = 8..59
\* in order it writes word i, once, as word[i-8] xor f(word[i-1]), reading only
\* bytes written before; every index into roundKey is in 0..239 and the index
\* into rcon is i/8 in 1..7; on return the 240 bytes (60 words, 15 round keys)
\* have each been written exactly once.
C21_KeyExpansionOrder ==
  [][ /\ (loc.pc = "call" /\ loc'.pc = "loop") =>
           /\ loc'.i = 8
           /\ loc'.writes = 0..31
           /\ \A n \in 0..31 : ctx'.roundKey[n + 1] = arg'[n + 1]
           /\ \A n \in 32..239 : loc'.count[n] = 0
      /\ (loc.pc = "loop" /\ loc'.pc = "loop") =>
           /\ loc.i \in 8..59
           /\ loc'.i = loc.i + 1
           /\ loc'.writes = { 4 * loc.i + j : j \in 0..3 }
           /\ loc'.writes \subseteq 0..239
           /\ \A n \in loc'.writes : loc.count[n] = 0 /\ loc'.count[n] = 1
           /\ \A n \in (0..239) \ loc'.writes :
                loc'.count[n] = loc.count[n] /\ ctx'.roundKey[n + 1] = ctx.roundKey[n + 1]
           /\ loc'.reads \subseteq { n \in 0..239 : loc.count[n] > 0 }
           /\ loc'.rcon \subseteq 1..7
           /\ loc'.rcon = (IF loc.i % 8 = 0 THEN { loc.i \div 8 } ELSE { })
           /\ \A j \in 1..4 :
                ctx'.roundKey[4 * loc.i + j] = ExpectedWord(ctx.roundKey, loc.i)[j]
      /\ (loc.pc = "loop" /\ loc'.pc = "return") =>
           /\ loc.i = 60
           /\ ctx' = ctx
           /\ ctx.Nr = 14
           /\ Len(ctx.roundKey) = 240
           /\ \A n \in 0..239 : loc.count[n] = 1 /\ ctx.roundKey[n + 1] \in 0..255
           /\ ctx = keyExpansion(arg) ]_vars

\* keyExpansion has returned on the key of FIPS 197, C.3; the last round key
\* is the one the standard prints for round 14
C21_Witness ==
  /\ loc.pc = "return"
  /\ arg = FipsKey
  /\ loc.i = 60
  /\ SubSeq(ctx.roundKey, 225, 240)
       = << 36, 252, 121, 204, 191, 9, 121, 233, 55, 26, 194, 60, 109, 104, 222, 54 >>

\* C22: for every message length len the padded message is the message, one
\* byte 0x80, zero bytes, and len * 8 as 8 bytes, most significant first; its
\* length is the smallest multiple of 64 that is >= len + 9 (one block up to 55
\* bytes, two for 56..119); the blocks are compressed in order, all of them.
C22_ShaPadding ==
  LET len == Len(arg)
      padded == 64 * ((len + 9 + 63) \div 64)
      msg == loc.msg
  IN loc.pc \in { "blocks", "return" } =>
       /\ Len(msg) = padded
       /\ padded % 64 = 0 /\ padded >= len + 9 /\ padded - 64 < len + 9
       /\ (len <= 55 => padded = 64)
       /\ (len \in 56..119 => padded = 128)
       /\ SubSeq(msg, 1, len) = arg
       /\ msg[len + 1] = 128
       /\ \A n \in (len + 2)..(padded - 8) : msg[n] = 0
       /\ \A k \in 1..4 : msg[padded - 8 + k] = 0
       /\ msg[padded - 3] * 16777216 + msg[padded - 2] * 65536 + msg[padded - 1] * 256
            + msg[padded] = len * 8
       /\ msg = shaPad(arg)
       /\ \A n \in 1..Len(loc.done) : loc.done[n] = 64 * (n - 1)
       /\ Len(loc.done) <= padded \div 64
       /\ loc.off = 64 * Len(loc.done)
       /\ (loc.pc = "return" => Len(loc.done) = padded \div 64 /\ Len(ret) = 32)

\* a message of 56 bytes has been hashed: two blocks, the second one holds
\* only zeros and the length
C22_Witness ==
  /\ loc.pc = "return"
  /\ Len(arg) = 56
  /\ Len(loc.msg) = 128
  /\ loc.done = << 0, 64 >>
  /\ loc.msg[57] = 128
  /\ SubSeq(loc.msg, 121, 128) = << 0, 0, 0, 0, 0, 0, 1, 192 >>

\* the product of the polynomials a and b over GF(2), bit i of b onwards
RECURSIVE PolyMul(_, _, _)
PolyMul(a, b, i) ==
  IF i = 8 THEN 0
  ELSE Only({ Xor16(IF (b \div (2 ^ i)) % 2 = 1 THEN a * (2 ^ i) ELSE 0, rest) :
                rest \in { PolyMul(a, b, i + 1) } })

\* p reduced modulo x^8 + x^4 + x^3 + x + 1 (0x11b = 283), from bit d downwards
RECURSIVE PolyMod(_, _)
PolyMod(p, d) ==
  IF d < 8 THEN p
  ELSE Only({ PolyMod(q, d - 1) :
                q \in { IF (p \div (2 ^ d)) % 2 = 1 THEN Xor16(p, 283 * (2 ^ (d - 8)))
                        ELSE p } })

\* multiplication in GF(2^8)
GfMul(a, b) == PolyMod(PolyMul(a, b, 0), 14)

\* C23: each inverse round transform undoes its forward transform on every
\* state: rsbox[sbox[x]] = x for all 256 bytes (sbox is a permutation),
\* invShiftRows(shiftRows(s)) = s where shiftRows rotates row r left by r, and
\* invMixColumns(mixColumns(s)) = s where mixColumns multiplies each column by
\* the matrix (2 3 1 1 / 1 2 3 1 / 1 1 2 3 / 3 1 1 2) in GF(2^8) modulo
\* x^8 + x^4 + x^3 + x + 1.
C23_InverseTransforms ==
  /\ \A x \in 0..255 : rsbox[sbox[x + 1] + 1] = x
  /\ { sbox[x + 1] : x \in 0..255 } = 0..255
  /\ (loc.pc = "forward" /\ loc.op = "subBytes") =>
       \A r, c \in 1..4 : loc.state[r][c] = sbox[loc.before[r][c] + 1]
  /\ (loc.pc = "forward" /\ loc.op = "shiftRows") =>
       \A r, c \in 0..3 : loc.state[r + 1][c + 1] = loc.before[r + 1][((c + r) % 4) + 1]
  /\ (loc.pc = "forward" /\ loc.op = "mixColumns") =>
       /\ \A c \in 1..4 :
            LET a == [r \in 1..4 |-> loc.before[r][c]]
                coef == << << 2, 3, 1, 1 >>, << 1, 2, 3, 1 >>, << 1, 1, 2, 3 >>, << 3, 1, 1, 2 >> >>
            IN \A r \in 1..4 :
                 loc.state[r][c] = Xor8(Xor8(GfMul(a[1], coef[r][1]), GfMul(a[2], coef[r][2])),
                                        Xor8(GfMul(a[3], coef[r][3]), GfMul(a[4], coef[r][4])))
       /\ (arg = << 219, 19, 83, 69, 242, 10, 34, 92, 1, 1, 1, 1, 198, 198, 198, 198 >> =>
             storeState(loc.state)
               = << 142, 77, 161, 188, 159, 220, 88, 157, 1, 1, 1, 1, 198, 198, 198, 198 >>)
  /\ loc.pc = "inverse" => (loc.state = loc.before /\ ret = arg)

\* invMixColumns has been applied to mixColumns of the four well-known
\* columns and has given them back
C23_Witness ==
  /\ loc.pc = "inverse"
  /\ loc.op = "mixColumns"
  /\ call = "invMixColumns"
  /\ arg = << 219, 19, 83, 69, 242, 10, 34, 92, 1, 1, 1, 1, 198, 198, 198, 198 >>
  /\ ret = arg

\* the call of the cipher that the menu action made last
LastCall == out.calls[Len(out.calls)]

\* what the menu action printed last
LastSaid == out.said[Len(out.said)]

\* C24: for every file content, the empty file included, encryptFile (input
\* readable, random source working, output creatable) returns true, and
\* decryptFile of a file that encryptFile wrote, under the same password,
\* returns true and writes an output of the original content; and
\* decryptText of a text that encryptText printed under the same password is
\* reported as a successful decryption of the text, the empty text included.
C24_FileAndTextRoundTrip ==
  (out.calls # << >> /\ LastCall.fn = call) =>
    /\ (call = "encryptFile" /\ LastCall.from \in DOMAIN fs /\ iv # << >>
          /\ LastCall.to # << >> /\ LastCall.to \notin ReadOnly) =>
         (ok /\ LastCall.ret /\ fs[LastCall.to] = ret)
    /\ \A x \in DOMAIN tab.cipher[key].encrypt :
         LET p == x[1]
             rnd == x[2]
             enc == tab.cipher[key].encrypt[x].ret
         IN /\ (call = "decryptFile" /\ rnd.good /\ arg = enc
                  /\ LastCall.to # << >> /\ LastCall.to \notin ReadOnly) =>
                 (ok /\ LastCall.ret /\ fs[LastCall.to] = p)
            /\ (call = "decryptText" /\ rnd.good /\ LastCall.from = bytesToHex(enc)) =>
                 (LastSaid[1] = "Decrypted" /\ LastSaid[2] = p)

\* C25: whenever encryptFile or decryptFile returns false because the input
\* cannot be opened or the cipher operation failed (random source, bad
\* length, bad padding), no file has been created or modified: the output is
\* opened only after the cipher operation has succeeded.
C25_FailureWritesNothing ==
  [][(/\ Len(out'.calls) = Len(out.calls) + 1
      /\ out'.calls[Len(out'.calls)].fn \in { "encryptFile", "decryptFile" }
      /\ ~ out'.calls[Len(out'.calls)].ret
      /\ \/ out'.calls[Len(out'.calls)].from \notin DOMAIN fs
         \/ call' = "encryptFile" /\ iv' = << >>
         \/ call' = "decryptFile" /\ ret' = << >>)
       => fs' = fs]_vars

\* encryptFile has returned false because the random source failed; its
\* input exists, its output name is usable, and the output file is not there
C25_Witness ==
  /\ out.calls # << >>
  /\ call = "encryptFile"
  /\ LastCall.fn = "encryptFile"
  /\ ~ ok
  /\ iv = << >>
  /\ LastCall.from \in DOMAIN fs
  /\ LastCall.to = << "f", ".", "e", "n", "c" >>
  /\ LastCall.to \notin DOMAIN fs

\* C26: in the menu loop every call of encryptFile, decryptFile, encryptText
\* or decryptText is preceded, within the same menu action, by one setKey with
\* the non-empty password entered for that action, and the cipher holds the
\* key of that password; while the entered password is empty no cipher call
\* is made, no file is written and the key set before is left as it is.
C26_KeyedByEnteredPassword ==
  /\ [](/\ (run.pc \in { "cipher", "files", "batch" } \/ out.calls # << >>) =>
             /\ run.pw # << >>
             /\ out.setKey = << bytesOf(run.pw) >>
             /\ key = tab.setKey[bytesOf(run.pw)].key
             /\ ctx = tab.setKey[bytesOf(run.pw)].ctx
        /\ run.pw = << >> => (out.calls = << >> /\ out.setKey = << >>))
  /\ [][run'.pw = << >> => (key' = key /\ ctx' = ctx /\ fs' = fs)]_vars

\* the second menu action of the run: the cipher was keyed with "pw" before,
\* the password entered now is "secret", and decryptFile has been called
\* under the key of "secret"
C26_Witness ==
  /\ out.calls # << >>
  /\ call = "decryptFile"
  /\ run.pw = << "s", "e", "c", "r", "e", "t" >>
  /\ out.setKey = << bytesOf(run.pw) >>
  /\ key = tab.setKey[bytesOf(run.pw)].key
  /\ \E rnd \in AppRandom :
       /\ rnd.good
       /\ arg = tab.cipher[tab.setKey[bytesOf(<< "p", "w" >>)].key].encrypt[<< fs[<< "f" >>], rnd >>].ret

\* the positions of the listed files that the batch has attempted so far:
\* those whose line is not "not found"
Attempted ==
  SelectSeq([j \in 1..run.i |-> j], LAMBDA j : out.said[2 + j][1] # "not found")

\* C27: a batch sets the key once and goes through the listed files in the
\* order entered, going on after a missing file and after a failed
\* operation; the count it reports is the number of listed files that
\* existed and whose operation returned true, so 0 <= count <= numFiles.
C27_BatchCount ==
  (run.choice \in { 5, 6 } /\ run.pc \in { "batch", "pause" } /\ run.files # << >>) =>
    /\ Len(out.setKey) = 1
    /\ Len(run.files) = run.numFiles
    /\ run.i \in 0..run.numFiles
    /\ \A j \in 1..run.i :
         /\ out.said[2 + j][1] \in { "not found", "Done", "Error" }
         /\ out.said[2 + j][1] = "not found" <=> run.files[j] \notin DOMAIN fs
         /\ out.said[2 + j][1] = "not found" => out.said[2 + j][2] = run.files[j]
    /\ Len(out.calls) = Len(Attempted)
    /\ \A m \in 1..Len(out.calls) :
         /\ out.calls[m].from = run.files[Attempted[m]]
         /\ out.calls[m].fn = IF run.choice = 5 THEN "encryptFile" ELSE "decryptFile"
         /\ out.calls[m].ret <=> out.said[2 + Attempted[m]][1] = "Done"
    /\ run.ok = Cardinality({ m \in 1..Len(out.calls) : out.calls[m].ret })
    /\ run.ok \in 0..run.numFiles
    /\ run.pc = "pause" =>
         /\ run.i = run.numFiles
         /\ LastSaid = << "Done!", run.ok, run.numFiles >>
         /\ Len(out.said) = 2 + run.numFiles + 1

\* a batch decrypt of two files has reported 1/2: the first file was a
\* plaintext, whose decryption failed, and the second was decrypted
C27_Witness ==
  /\ run.choice = 6
  /\ run.pc = "pause"
  /\ run.files = << << "f" >>, << "f", ".", "e", "n", "c" >> >>
  /\ LastSaid = << "Done!", 1, 2 >>
  /\ Len(out.calls) = 2
  /\ ~ out.calls[1].ret
  /\ out.calls[2].ret

\* C28: hexToBytes turns a text of n characters into floor(n/2) bytes, byte k
\* from the characters 2k-1 and 2k, and leaves out a last unpaired character;
\* so decryptText of a valid hex ciphertext with one more character appended
\* gives decrypt the bytes of the ciphertext and returns the same plaintext.
C28_HexPairs ==
  (out.calls # << >> /\ call = "decryptText" /\ LastCall.fn = "decryptText") =>
    /\ LastCall.from = run.text
    /\ Len(arg) = Len(run.text) \div 2
    /\ \A k \in 1..Len(arg) :
         (isxdigit(run.text[2 * k - 1]) /\ isxdigit(run.text[2 * k])) =>
           arg[k] = 16 * digitValue(run.text[2 * k - 1]) + digitValue(run.text[2 * k])
    /\ \A k \in DOMAIN tab.cipher : \A x \in DOMAIN tab.cipher[k].encrypt :
         LET c == tab.cipher[k].encrypt[x].ret
         IN (x[2].good /\ run.text \in { bytesToHex(c), bytesToHex(c) \o << "0" >> }) =>
              /\ arg = c
              /\ ret = tab.cipher[key].decrypt[c].ret
              /\ LastCall.to = ret
              /\ (k = key /\ x[1] # << >>) => LastSaid = << "Decrypted", x[1] >>

\* the text encryptText printed for "hi" has been pasted with one more
\* character, under the same password, and case 4 has printed "hi"
C28_Witness ==
  /\ out.calls # << >>
  /\ call = "decryptText"
  /\ Len(run.text) = 65
  /\ run.text[65] = "0"
  /\ arg \in { tab.cipher[key].encrypt[<< bytesOf(<< "h", "i" >>), rnd >>].ret : rnd \in AppRandom }
  /\ Len(arg) = 32
  /\ LastSaid = << "Decrypted", bytesOf(<< "h", "i" >>) >>

\* the file names entered in the current menu action, once they are all read
NamesEntered ==
  IF run.choice \in { 1, 2 } /\ run.pc \in { "password", "setKey", "cipher" }
    THEN { run.inputFile }
  ELSE IF run.choice \in { 5, 6 } /\ run.pc = "batch"
    THEN { run.files[j] : j \in 1..Len(run.files) }
  ELSE { }

\* C29: for every file name f, the empty name included,
\* hasEncExtension(addEncExtension(f)) is true and
\* removeEncExtension(addEncExtension(f)) = f; and removeEncExtension(f) = f
\* whenever hasEncExtension(f) is false.  In case 1 the default output name
\* is addEncExtension of the input name.
C29_EncExtensionRoundTrip ==
  /\ \A f \in NamesEntered :
       /\ hasEncExtension(addEncExtension(f))
       /\ removeEncExtension(addEncExtension(f)) = f
       /\ ~ hasEncExtension(f) => removeEncExtension(f) = f
  /\ (run.choice = 1 /\ run.pc = "password" /\ out.said # << >> /\ LastSaid[1] = "Output") =>
       /\ run.outputFile = run.inputFile \o << ".", "e", "n", "c" >>
       /\ hasEncExtension(run.outputFile)
       /\ removeEncExtension(run.outputFile) = run.inputFile

\* "cin >> choice" at the menu prompt will read 11: the input typed so far
\* begins with 11 and a character that is no digit
ElevenIsNext ==
  /\ run.pc = "menu"
  /\ Len(cin.buf) >= 3
  /\ SubSeq(cin.buf, 1, 2) = << "1", "1" >>
  /\ cin.buf[3] \notin { "0", "1", "2", "3", "4", "5", "6", "7", "8", "9" }

\* C30: run returns exactly when choice 11 is read at the menu prompt; after
\* every other choice, numeric or not, and after every failed read it comes
\* back to the menu; so it terminates when the input supplies 11 at a menu
\* prompt, and it never terminates otherwise, in particular never once
\* standard input has ended.
C30_ReturnsExactlyOn11 ==
  /\ [][(run.pc # "return" /\ run'.pc = "return")
          <=> (run.pc = "menu" /\ run'.pc # "menu" /\ run'.choice = 11)]_vars
  /\ [][cin.eof => run'.pc # "return"]_vars
  /\ []<>(run.pc \in { "menu", "return" })
  /\ ElevenIsNext ~> (run.pc = "return")
  /\ [](cin.eof => <>(run.pc = "pause" /\ out.said = << << "Invalid input" >> >>))

\* run has returned on choice 11 after a menu action that encrypted a file
C30_Witness ==
  /\ run.pc = "return"
  /\ run.choice = 11
  /\ out.said = << << "Goodbye" >> >>
  /\ << "f", ".", "e", "n", "c" >> \in DOMAIN fs

====
